---- MODULE Spec2Model ----
(***************************************************************************)
(* community_pulse: the cleaning pipeline (utils/cleaner.py DataCleaner),  *)
(* the field validators of utils/health_metrics.py and the dashboard's     *)
(* "Run Cleaning Algorithms" handler (app.py), as a state machine.         *)
(*                                                                         *)
(* A DataFrame is [cols, rows]: a column set and a sequence of rows; a row *)
(* is [idx, cells]: its index label (kept by every row filter of pandas)   *)
(* and one cell per column.  Cells are tagged records: NaN (missing),      *)
(* Str(<<chars>>), Num(n), Date(yyyymmdd).  Text is a sequence of          *)
(* one-character strings, so that lower/strip/replace/title and the two    *)
(* regular expressions are computed character by character.               *)
(* DataFrames live in a heap of objects, so that copy(), in-place column   *)
(* assignment and attribute rebinding are told apart.                      *)
(***************************************************************************)
EXTENDS Integers, Sequences, FiniteSets, TLC

VARIABLES heap, raw_ref, clean_ref, log, start_timestamp, end_timestamp,
          now, input, lastOp, pre, steps_arg, raised, returned,
          session_cleaned, error_shown, health, empty_sum,
          session_state, data_exists, rendered, panel

\* the dashboard's tutorial and sidebar: st.session_state, whether the data
\* file exists, and the widgets and tutorial panel the last script run drew
ui_vars == <<session_state, data_exists, rendered, panel>>

vars == <<heap, raw_ref, clean_ref, log, start_timestamp, end_timestamp,
          now, input, lastOp, pre, steps_arg, raised, returned,
          session_cleaned, error_shown, health, empty_sum, ui_vars>>

(***************************************************************************)
(* Bounds of the model.                                                    *)
(***************************************************************************)
\* most rows of an input dataset
MaxRows == 2
\* most operations (step calls, clean_all calls, button presses) in a run
MaxCalls == 2
\* most rows of an input dataset that has the Join_Date column only
MaxDateRows == 4
\* most rows of a dataset given to the health engine
MaxMetricRows == 2
\* most rows of a dataset of the columns ScoreCols given to the health engine
MaxScoreRows == 3
\* most calls on a health engine in a run
MaxMetricCalls == 2

(***************************************************************************)
(* Text: characters, str.lower, str.strip, str.replace, str.title.         *)
(***************************************************************************)
Lowers == <<"a","b","c","d","e","f","g","h","i","j","k","l","m",
            "n","o","p","q","r","s","t","u","v","w","x","y","z">>
Uppers == <<"A","B","C","D","E","F","G","H","I","J","K","L","M",
            "N","O","P","Q","R","S","T","U","V","W","X","Y","Z">>
Digits == <<"0","1","2","3","4","5","6","7","8","9">>

LowerSet == {Lowers[i] : i \in 1..26}
UpperSet == {Uppers[i] : i \in 1..26}
DigitSet == {Digits[i] : i \in 1..10}
LetterSet == LowerSet \cup UpperSet
Whitespace == {" ", "\t", "\n", "\r"}

ToLowerMap == [c \in UpperSet |-> Lowers[CHOOSE i \in 1..26 : Uppers[i] = c]]
ToUpperMap == [c \in LowerSet |-> Uppers[CHOOSE i \in 1..26 : Lowers[i] = c]]

LowerChar(c) == IF c \in UpperSet THEN ToLowerMap[c] ELSE c
UpperChar(c) == IF c \in LowerSet THEN ToUpperMap[c] ELSE c

\* str.lower()
StrLower(s) == [i \in 1..Len(s) |-> LowerChar(s[i])]

\* str.strip(): leading and trailing whitespace removed
StrStrip(s) ==
    LET ns == {i \in 1..Len(s) : s[i] \notin Whitespace}
    IN  IF ns = {} THEN <<>>
        ELSE LET lo == CHOOSE i \in ns : \A j \in ns : i <= j
                 hi == CHOOSE i \in ns : \A j \in ns : j <= i
             IN  SubSeq(s, lo, hi)

\* s.startswith(old) at position i
MatchAt(s, i, old) ==
    /\ i + Len(old) - 1 <= Len(s)
    /\ \A k \in 1..Len(old) : s[i + k - 1] = old[k]

\* str.replace(old, new): the non-overlapping occurrences, left to right
RECURSIVE ReplaceFrom(_, _, _, _)
ReplaceFrom(s, i, old, new) ==
    IF i > Len(s) THEN <<>>
    ELSE IF MatchAt(s, i, old)
         THEN new \o ReplaceFrom(s, i + Len(old), old, new)
         ELSE <<s[i]>> \o ReplaceFrom(s, i + 1, old, new)

StrReplace(s, old, new) == ReplaceFrom(s, 1, old, new)

\* str.title(): a letter that follows a letter is lower-cased, any other
\* letter is upper-cased, other characters are kept
StrTitle(s) ==
    [i \in 1..Len(s) |->
        IF s[i] \notin LetterSet THEN s[i]
        ELSE IF i > 1 /\ s[i - 1] \in LetterSet THEN LowerChar(s[i])
             ELSE UpperChar(s[i])]

(***************************************************************************)
(* Cells.                                                                  *)
(***************************************************************************)
NaN == [k |-> "nan"]
Str(s) == [k |-> "str", s |-> s]
Num(n) == [k |-> "num", n |-> n]
Date(d) == [k |-> "date", d |-> d]

\* pd.isna(cell)
IsNa(c) == c.k = "nan"

RECURSIVE NatChars(_)
NatChars(n) == IF n < 10 THEN <<Digits[n + 1]>>
               ELSE NatChars(n \div 10) \o <<Digits[(n % 10) + 1]>>

\* yyyymmdd as "yyyy-mm-dd", the text of a Timestamp at midnight
DateChars(d) ==
    LET y == d \div 10000
        m == (d \div 100) % 100
        dd == d % 100
        two(n) == IF n < 10 THEN <<"0">> \o NatChars(n) ELSE NatChars(n)
    IN  NatChars(y) \o <<"-">> \o two(m) \o <<"-">> \o two(dd)

\* str(cell), as astype(str) and str(email) compute it: a missing value
\* becomes the text "nan"
AsStr(c) ==
    CASE c.k = "nan"  -> <<"n", "a", "n">>
      [] c.k = "str"  -> c.s
      [] c.k = "num"  -> NatChars(c.n)
      [] c.k = "date" -> DateChars(c.d)


(***************************************************************************)
(* Field validators.                                                       *)
(***************************************************************************)
\* re.match(r"[^@]+@[^@]+\.[^@]+", s) of fix_emails: anchored at the start
\* only; p is the first "@", j a "." with a non-"@" character after it
CleanerEmailMatch(s) ==
    \E p \in 2..Len(s) :
        /\ s[p] = "@"
        /\ \A k \in 1..(p - 1) : s[k] # "@"
        /\ \E j \in (p + 2)..(Len(s) - 1) :
              /\ s[j] = "."
              /\ \A k \in (p + 1)..(j - 1) : s[k] # "@"
              /\ s[j + 1] # "@"

LocalChars == LetterSet \cup DigitSet \cup {".", "_", "%", "+", "-"}
DomainChars == LetterSet \cup DigitSet \cup {".", "-"}

\* re.match(r'^[a-zA-Z0-9._%+-]+@[a-zA-Z0-9.-]+\.[a-zA-Z]{2,}$', s)
ValidatorEmailMatch(s) ==
    \E p \in 2..Len(s) :
        /\ s[p] = "@"
        /\ \A k \in 1..(p - 1) : s[k] \in LocalChars
        /\ \E j \in (p + 2)..(Len(s) - 2) :
              /\ s[j] = "."
              /\ \A k \in (p + 1)..(j - 1) : s[k] \in DomainChars
              /\ \A k \in (j + 1)..Len(s) : s[k] \in LetterSet

\* DataHealthMetrics._is_valid_email
is_valid_email(c) ==
    IF IsNa(c) THEN FALSE ELSE ValidatorEmailMatch(StrStrip(AsStr(c)))

\* clean_email without .strip()
clean_email_not_trimmed(c) ==
    IF IsNa(c) THEN NaN
    ELSE LET email == StrReplace(StrLower(AsStr(c)),
                                 <<" ", "a", "t", " ">>, <<"@">>)
         IN  IF ~CleanerEmailMatch(email) THEN NaN ELSE Str(email)

\* clean_email, the function fix_emails applies to every Email cell:
\* the new cell, NaN standing for the None it returns
clean_email(c) ==
    IF IsNa(c) THEN NaN
    ELSE LET email == StrReplace(StrStrip(StrLower(AsStr(c))),
                                 <<" ", "a", "t", " ">>, <<"@">>)
         IN  IF ~CleanerEmailMatch(email) THEN NaN ELSE Str(email)

(***************************************************************************)
(* Dates: pd.to_datetime(column, errors='coerce') of pandas 2.x on the     *)
(* ten-character layouts yyyy-mm-dd, aa/bb/yyyy and aa-bb-yyyy; any other  *)
(* text (such as "Unknown") does not parse.  A date is the number yyyymmdd.*)
(***************************************************************************)
DigitVal(c) == (CHOOSE i \in 1..10 : Digits[i] = c) - 1

AllDigits(s, ps) == \A i \in ps : s[i] \in DigitSet

Num2(s, i) == 10 * DigitVal(s[i]) + DigitVal(s[i + 1])
Num4(s, i) == 100 * Num2(s, i) + Num2(s, i + 2)

IsLeap(y) == (y % 4 = 0 /\ y % 100 # 0) \/ y % 400 = 0

DaysIn(y, m) ==
    IF m \in {4, 6, 9, 11} THEN 30
    ELSE IF m = 2 THEN (IF IsLeap(y) THEN 29 ELSE 28)
    ELSE 31

ValidYMD(y, m, d) == y >= 1 /\ m \in 1..12 /\ d >= 1 /\ d <= DaysIn(y, m)

\* the layout yyyy-mm-dd
IsoLayout(s) ==
    Len(s) = 10 /\ s[5] = "-" /\ s[8] = "-" /\ AllDigits(s, {1,2,3,4,6,7,9,10})

\* the layout aa<sep>bb<sep>yyyy
SepLayout(s, sep) ==
    Len(s) = 10 /\ s[3] = sep /\ s[6] = sep /\ AllDigits(s, {1,2,4,5,7,8,9,10})

NoDate == 0

\* the date a text denotes when parsed on its own (dateutil, dayfirst=False):
\* month first unless only day first is a calendar date; NoDate if none
ParseAlone(s) ==
    IF IsoLayout(s)
    THEN IF ValidYMD(Num4(s, 1), Num2(s, 6), Num2(s, 9))
         THEN Num4(s, 1) * 10000 + Num2(s, 6) * 100 + Num2(s, 9) ELSE NoDate
    ELSE IF SepLayout(s, "/") \/ SepLayout(s, "-")
    THEN LET a == Num2(s, 1)
             b == Num2(s, 4)
             y == Num4(s, 7)
         IN  IF ValidYMD(y, a, b) THEN y * 10000 + a * 100 + b
             ELSE IF ValidYMD(y, b, a) THEN y * 10000 + b * 100 + a
             ELSE NoDate
    ELSE NoDate

\* guess_datetime_format of the first non-null text: the strptime format the
\* whole column is then parsed with, "" when none can be inferred
GuessFormat(s) ==
    IF ParseAlone(s) = NoDate THEN ""
    ELSE IF IsoLayout(s) THEN "%Y-%m-%d"
    ELSE LET sep == s[3]
             monthFirst == ValidYMD(Num4(s, 7), Num2(s, 1), Num2(s, 4))
         IN  IF sep = "/"
             THEN (IF monthFirst THEN "%m/%d/%Y" ELSE "%d/%m/%Y")
             ELSE (IF monthFirst THEN "%m-%d-%Y" ELSE "%d-%m-%Y")

\* strptime(s, fmt), exact: NoDate when s is not of that format
ParseWith(s, fmt) ==
    IF fmt = "%Y-%m-%d"
    THEN (IF IsoLayout(s) THEN ParseAlone(s) ELSE NoDate)
    ELSE LET sep == IF fmt \in {"%m/%d/%Y", "%d/%m/%Y"} THEN "/" ELSE "-"
         IN  IF ~SepLayout(s, sep) THEN NoDate
             ELSE LET a == Num2(s, 1)
                      b == Num2(s, 4)
                      y == Num4(s, 7)
                      m == IF fmt \in {"%m/%d/%Y", "%m-%d-%Y"} THEN a ELSE b
                      d == IF fmt \in {"%m/%d/%Y", "%m-%d-%Y"} THEN b ELSE a
                  IN  IF ValidYMD(y, m, d) THEN y * 10000 + m * 100 + d
                      ELSE NoDate

\* to_datetime that parses texts only: a value that is already a date is
\* coerced to NaT
to_datetime_texts_only(cells) ==
    LET n == Len(cells)
        texts == {i \in 1..n : cells[i].k = "str"}
        coerce(d) == IF d = NoDate THEN NaN ELSE Date(d)
    IN  IF texts = {} THEN [i \in 1..n |-> NaN]
        ELSE LET first == CHOOSE i \in texts : \A j \in texts : i <= j
                 fmt == GuessFormat(cells[first].s)
             IN  [i \in 1..n |->
                    IF cells[i].k = "str"
                    THEN coerce(IF fmt = "" THEN ParseAlone(cells[i].s)
                                ELSE ParseWith(cells[i].s, fmt))
                    ELSE NaN]

\* to_datetime with errors='ignore': a text that does not parse is kept
to_datetime_keeps_unparsed(cells) ==
    LET n == Len(cells)
        texts == {i \in 1..n : cells[i].k = "str"}
        keep(c, d) == IF d = NoDate THEN c ELSE Date(d)
    IN  IF texts = {}
        THEN [i \in 1..n |-> IF cells[i].k = "date" THEN cells[i] ELSE NaN]
        ELSE LET first == CHOOSE i \in texts : \A j \in texts : i <= j
                 fmt == GuessFormat(cells[first].s)
             IN  [i \in 1..n |->
                    CASE cells[i].k = "date" -> cells[i]
                      [] cells[i].k = "str" ->
                           keep(cells[i],
                                IF fmt = "" THEN ParseAlone(cells[i].s)
                                ELSE ParseWith(cells[i].s, fmt))
                      [] OTHER -> NaN]

\* pd.to_datetime(cells, errors='coerce'): a datetime column is returned as
\* it is; otherwise the format is inferred from the first non-null text and
\* every text is parsed with it, or each on its own when none is inferred;
\* what does not parse becomes NaT
to_datetime(cells) ==
    LET n == Len(cells)
        texts == {i \in 1..n : cells[i].k = "str"}
        coerce(d) == IF d = NoDate THEN NaN ELSE Date(d)
    IN  IF texts = {}
        THEN [i \in 1..n |-> IF cells[i].k = "date" THEN cells[i] ELSE NaN]
        ELSE LET first == CHOOSE i \in texts : \A j \in texts : i <= j
                 fmt == GuessFormat(cells[first].s)
             IN  [i \in 1..n |->
                    CASE cells[i].k = "date" -> cells[i]
                      [] cells[i].k = "str" ->
                           coerce(IF fmt = "" THEN ParseAlone(cells[i].s)
                                  ELSE ParseWith(cells[i].s, fmt))
                      [] OTHER -> NaN]

\* of the most frequent non-missing values the one that comes first in the
\* column; NoDate if there is none
ModeDateFirstSeen(cells) ==
    LET n == Len(cells)
        vals == {cells[i].d : i \in {j \in 1..n : cells[j].k = "date"}}
        cnt(v) == Cardinality({i \in 1..n : cells[i] = Date(v)})
        top == {v \in vals : \A w \in vals : cnt(w) <= cnt(v)}
        at == {i \in 1..n : cells[i].k = "date" /\ cells[i].d \in top}
    IN  IF vals = {} THEN NoDate
        ELSE cells[CHOOSE i \in at : \A j \in at : i <= j].d

\* the latest date of the column, however often it occurs
ModeDateLatest(cells) ==
    LET n == Len(cells)
        vals == {cells[i].d : i \in {j \in 1..n : cells[j].k = "date"}}
    IN  IF vals = {} THEN NoDate
        ELSE CHOOSE v \in vals : \A w \in vals : w <= v

\* Series.mode()[0] of a datetime column: of the most frequent non-missing
\* values (mode() returns them sorted) the smallest; NoDate if mode() is empty
ModeDate(cells) ==
    LET n == Len(cells)
        vals == {cells[i].d : i \in {j \in 1..n : cells[j].k = "date"}}
        cnt(v) == Cardinality({i \in 1..n : cells[i] = Date(v)})
        top == {v \in vals : \A w \in vals : cnt(w) <= cnt(v)}
    IN  IF vals = {} THEN NoDate
        ELSE CHOOSE v \in top : \A w \in top : v <= w

(***************************************************************************)
(* DataFrames.                                                             *)
(***************************************************************************)
Cols == {"Name", "Email", "Join_Date", "Event_Attendance", "Role"}

\* len(df)
NRows(df) == Len(df.rows)

\* df[c] as a sequence of cells, in row order
Column(df, c) == [i \in 1..NRows(df) |-> df.rows[i].cells[c]]

\* df[c] = vals
SetColumn(df, c, vals) ==
    [df EXCEPT !.rows =
        [i \in 1..NRows(df) |-> [df.rows[i] EXCEPT !.cells[c] = vals[i]]]]

RECURSIVE PickFrom(_, _, _)
PickFrom(rows, keep, i) ==
    IF i > Len(rows) THEN <<>>
    ELSE (IF i \in keep THEN <<rows[i]>> ELSE <<>>) \o PickFrom(rows, keep, i + 1)

\* df[mask]: the rows at the positions of keep, in order, index labels kept
SelectRows(df, keep) == [df EXCEPT !.rows = PickFrom(df.rows, keep, 1)]

\* df.empty: no row or no column
IsEmpty(df) == df.cols = {} \/ NRows(df) = 0

\* Series.duplicated(keep='first') of a sequence of values: the positions
\* whose value occurs at an earlier position
Duplicated(vals) == {i \in 1..Len(vals) : \E j \in 1..(i - 1) : vals[j] = vals[i]}

\* df.drop_duplicates(): of rows equal in every column (missing values
\* counting as equal) the first is kept; an empty frame is returned as is
drop_duplicates(df) ==
    IF IsEmpty(df) THEN df
    ELSE SelectRows(df,
            (1..NRows(df)) \ Duplicated([i \in 1..NRows(df) |-> df.rows[i].cells]))

\* df.dropna(subset=[c])
dropna(df, c) ==
    SelectRows(df, {i \in 1..NRows(df) : ~IsNa(df.rows[i].cells[c])})

\* Series.isna().sum()
CountNa(vals) == Cardinality({i \in 1..Len(vals) : IsNa(vals[i])})

(***************************************************************************)
(* The heap.  CallerRef is the DataFrame the caller passes in; RawSlot and *)
(* CleanSlot are where the cleaner's own DataFrames are allocated.         *)
(***************************************************************************)
CallerRef == "df"
RawSlot == "raw"
CleanSlot == "clean"
\* where the health engine's snapshot is allocated, and the DataFrame that
\* df.head(1) returns
HealthSlot == "health"
HeadSlot == "head"
Refs == {CallerRef, RawSlot, CleanSlot, HealthSlot, HeadSlot}

\* a copy that is no copy: the same object
DfCopyAliased(src, fresh) == src

\* df.copy(): the reference of the result, a new object at `fresh`
DfCopy(src, fresh) == fresh

None == [k |-> "None"]
Time(t) == [k |-> "time", t |-> t]

(***************************************************************************)
(* DataCleaner.  A cleaner is [heap, raw_ref, clean_ref, log]; a step maps *)
(* the cleaner before the call to the cleaner after it.  Assigning a       *)
(* column changes the object self.clean_df refers to; assigning            *)
(* self.clean_df binds it to a new object.                                 *)
(***************************************************************************)
CleanDf(st) == st.heap[st.clean_ref]

\* F(v), with v evaluated once
Only(S) == CHOOSE x \in S : TRUE
Bind(v, F(_)) == Only({F(x) : x \in {v}})

\* self.clean_df[c] = vals
AssignColumn(st, c, vals) ==
    [st EXCEPT !.heap[st.clean_ref] = SetColumn(CleanDf(st), c, vals)]

\* self.clean_df = df
Rebind(st, df) ==
    [st EXCEPT !.heap[CleanSlot] = df, !.clean_ref = CleanSlot]

\* self.log.insert(0, entry): the entry put in front of the log
LogPrepend(st, entry) == [st EXCEPT !.log = <<entry>> \o @]

\* self.log.append(entry)
LogAppend(st, entry) == [st EXCEPT !.log = Append(@, entry)]

\* DataCleaner.__init__(df)
Construct(h, df) ==
    [heap |-> [h EXCEPT ![RawSlot] = h[df], ![CleanSlot] = h[df]],
     raw_ref |-> DfCopy(df, RawSlot),
     clean_ref |-> DfCopy(df, CleanSlot),
     log |-> <<>>]

\* standardize_names with the log entry appended outside the column test
standardize_names_always_logs(st) ==
    LogAppend(
       IF "Name" \in CleanDf(st).cols
       THEN LET col == Column(CleanDf(st), "Name")
            IN  AssignColumn(st, "Name",
                   [i \in 1..Len(col) |-> Str(StrTitle(AsStr(col[i])))])
       ELSE st,
       [msg |-> "Standardized Names to Title Case."])

standardize_names(st) ==
    IF "Name" \in CleanDf(st).cols
    THEN LET col == Column(CleanDf(st), "Name")
         IN  LogAppend(
                AssignColumn(st, "Name",
                   [i \in 1..Len(col) |-> Str(StrTitle(AsStr(col[i])))]),
                [msg |-> "Standardized Names to Title Case."])
    ELSE st

fix_emails(st) ==
    IF "Email" \notin CleanDf(st).cols THEN st
    ELSE LET col == Column(CleanDf(st), "Email")
         IN  Bind(AssignColumn(st, "Email",
                     [i \in 1..Len(col) |-> clean_email(col[i])]),
                  LAMBDA st1 :
             LET n_before == NRows(CleanDf(st1))
             IN  Bind(Rebind(st1, dropna(CleanDf(st1), "Email")),
                      LAMBDA st2 :
             LET n_dropped == n_before - NRows(CleanDf(st2))
             IN  LogAppend(st2,
                    [msg |-> "Fixed email formatting. Removed {n_dropped} invalid emails.",
                     n |-> n_dropped])))

\* remove_duplicates comparing the Emails as written, case included
remove_duplicates_case_sensitive(st) ==
    LET initial_count == NRows(CleanDf(st))
    IN  Bind(Rebind(st, drop_duplicates(CleanDf(st))), LAMBDA st1 :
        Bind(IF "Email" \in CleanDf(st1).cols
             THEN LET col == Column(CleanDf(st1), "Email")
                  IN  Bind([i \in 1..Len(col) |-> AsStr(col[i])],
                           LAMBDA temp_email :
                           Rebind(st1, SelectRows(CleanDf(st1),
                                     (1..Len(col)) \ Duplicated(temp_email))))
             ELSE st1, LAMBDA st2 :
        LET final_count == NRows(CleanDf(st2))
        IN  LogAppend(st2,
               [msg |-> "Removed {initial_count - final_count} duplicate rows.",
                n |-> initial_count - final_count])))

remove_duplicates(st) ==
    LET initial_count == NRows(CleanDf(st))
    IN  Bind(Rebind(st, drop_duplicates(CleanDf(st))), LAMBDA st1 :
        Bind(IF "Email" \in CleanDf(st1).cols
             THEN LET col == Column(CleanDf(st1), "Email")
                  IN  Bind([i \in 1..Len(col) |-> StrLower(AsStr(col[i]))],
                           LAMBDA temp_email :
                           Rebind(st1, SelectRows(CleanDf(st1),
                                     (1..Len(col)) \ Duplicated(temp_email))))
             ELSE st1, LAMBDA st2 :
        LET final_count == NRows(CleanDf(st2))
        IN  LogAppend(st2,
               [msg |-> "Removed {initial_count - final_count} duplicate rows.",
                n |-> initial_count - final_count])))

\* clean_dates logging the imputed count on either branch
clean_dates_always_counts(st) ==
    IF "Join_Date" \notin CleanDf(st).cols THEN st
    ELSE Bind(to_datetime(Column(CleanDf(st), "Join_Date")), LAMBDA join_dates :
         LET st1 == AssignColumn(st, "Join_Date", join_dates)
             n_fixed == CountNa(join_dates)
             mode_date == ModeDate(join_dates)
         IN  LogAppend(
                IF n_fixed > 0 /\ mode_date # NoDate
                THEN AssignColumn(st1, "Join_Date",
                        [i \in 1..Len(join_dates) |->
                           IF IsNa(join_dates[i]) THEN Date(mode_date)
                           ELSE join_dates[i]])
                ELSE st1,
                [msg |-> "Standardized Dates. Imputed {n_fixed} missing/bad dates with mode.",
                 n |-> n_fixed]))

clean_dates(st) ==
    IF "Join_Date" \notin CleanDf(st).cols THEN st
    ELSE Bind(to_datetime(Column(CleanDf(st), "Join_Date")), LAMBDA join_dates :
         LET st1 == AssignColumn(st, "Join_Date", join_dates)
             n_fixed == CountNa(join_dates)
             mode_date == ModeDate(join_dates)
         IN  IF n_fixed > 0 /\ mode_date # NoDate
             THEN LogAppend(
                    AssignColumn(st1, "Join_Date",
                       [i \in 1..Len(join_dates) |->
                          IF IsNa(join_dates[i]) THEN Date(mode_date)
                          ELSE join_dates[i]]),
                    [msg |-> "Standardized Dates. Imputed {n_fixed} missing/bad dates with mode.",
                     n |-> n_fixed])
             ELSE LogAppend(st1,
                    [msg |-> "Standardized Dates. No missing values found or mode undefined."]))

\* handle_missing_values that counts the missing cells after filling them
handle_missing_values_counts_after(st) ==
    IF "Event_Attendance" \in CleanDf(st).cols
    THEN LET col == Column(CleanDf(st), "Event_Attendance")
             filled == [i \in 1..Len(col) |->
                          IF IsNa(col[i]) THEN Num(0) ELSE col[i]]
             n_att == CountNa(filled)
         IN  LogAppend(
                AssignColumn(st, "Event_Attendance", filled),
                [msg |-> "Filled {n_att} missing Attendance records with 0.",
                 n |-> n_att])
    ELSE st

\* handle_missing_values filling the whole frame: self.clean_df.fillna(0)
handle_missing_values_fills_frame(st) ==
    IF "Event_Attendance" \in CleanDf(st).cols
    THEN LET df == CleanDf(st)
             n_att == CountNa(Column(df, "Event_Attendance"))
             filled == [df EXCEPT !.rows =
                          [i \in 1..NRows(df) |->
                             [df.rows[i] EXCEPT !.cells =
                                [c \in df.cols |->
                                   IF IsNa(df.rows[i].cells[c]) THEN Num(0)
                                   ELSE df.rows[i].cells[c]]]]]
         IN  LogAppend(
                [st EXCEPT !.heap[st.clean_ref] = filled],
                [msg |-> "Filled {n_att} missing Attendance records with 0.",
                 n |-> n_att])
    ELSE st

handle_missing_values(st) ==
    IF "Event_Attendance" \in CleanDf(st).cols
    THEN LET col == Column(CleanDf(st), "Event_Attendance")
             n_att == CountNa(col)
         IN  LogAppend(
                AssignColumn(st, "Event_Attendance",
                   [i \in 1..Len(col) |-> IF IsNa(col[i]) THEN Num(0) ELSE col[i]]),
                [msg |-> "Filled {n_att} missing Attendance records with 0.",
                 n |-> n_att])
    ELSE st

\* clean_all with duplicates removed before the text is standardized
clean_all_dedupe_first(st) ==
    Bind(remove_duplicates(st), LAMBDA s1 :
    Bind(standardize_names(s1), LAMBDA s2 :
    Bind(fix_emails(s2), LAMBDA s3 :
    Bind(clean_dates(s3), LAMBDA s4 :
    handle_missing_values(s4)))))

\* the five steps of clean_all, in its order (end_timestamp is set by the
\* action)
clean_all(st) ==
    Bind(standardize_names(st), LAMBDA s1 :
    Bind(fix_emails(s1), LAMBDA s2 :
    Bind(remove_duplicates(s2), LAMBDA s3 :
    Bind(clean_dates(s3), LAMBDA s4 :
    handle_missing_values(s4)))))

\* a cell that holds a Python list of two items: a value that is not
\* hashable and that pd.isna maps to an array of two booleans
ListCell == [k |-> "list"]

\* a cell of column c of the frame is a list
HasList(df, c) ==
    c \in df.cols /\ \E i \in 1..NRows(df) : df.rows[i].cells[c] = ListCell

NoException == "none"

\* the exception a step raises on the cleaner, NoException if it completes.
\* fix_emails: "if pd.isna(email)" on a list is the truth value of an
\* array, a ValueError raised inside apply, before the column is assigned.
\* remove_duplicates: drop_duplicates hashes the cells of every column of a
\* frame that has rows, a TypeError on a list, before clean_df is rebound.
step_raises(step, st) ==
    CASE step = "fix_emails" /\ HasList(CleanDf(st), "Email") -> "ValueError"
      [] step = "remove_duplicates"
           /\ \E c \in CleanDf(st).cols : HasList(CleanDf(st), c) -> "TypeError"
      [] OTHER -> NoException

\* the cleaner after a step that completes
run_step(step, st) ==
    CASE step = "standardize_names" -> standardize_names(st)
      [] step = "fix_emails" -> fix_emails(st)
      [] step = "remove_duplicates" -> remove_duplicates(st)
      [] step = "clean_dates" -> clean_dates(st)
      [] step = "handle_missing_values" -> handle_missing_values(st)

\* the step calls of clean_all, in the order of its body
CleanAllBody == <<"standardize_names", "fix_emails", "remove_duplicates",
                  "clean_dates", "handle_missing_values">>

\* the calls one after the other with every exception caught and passed
\* over (try: step() except Exception: pass), then end_timestamp
RECURSIVE run_steps_skipping_failures(_, _)
run_steps_skipping_failures(st, steps) ==
    IF steps = <<>> THEN [st |-> st, exc |-> NoException, stamped |-> TRUE]
    ELSE IF step_raises(Head(steps), st) # NoException
    THEN run_steps_skipping_failures(st, Tail(steps))
    ELSE Bind(run_step(Head(steps), st), LAMBDA s1 :
              run_steps_skipping_failures(s1, Tail(steps)))

clean_all_skipping_failures(st) == run_steps_skipping_failures(st, CleanAllBody)

\* the calls one after the other, as statements of one body without
\* try/except: the first exception ends the body, and the assignment of
\* end_timestamp that follows the calls is reached only if none raised
RECURSIVE run_steps(_, _)
run_steps(st, steps) ==
    IF steps = <<>> THEN [st |-> st, exc |-> NoException, stamped |-> TRUE]
    ELSE Bind(step_raises(Head(steps), st), LAMBDA exc :
         IF exc # NoException
         THEN [st |-> st, exc |-> exc, stamped |-> FALSE]
         ELSE Bind(run_step(Head(steps), st), LAMBDA s1 :
                   run_steps(s1, Tail(steps))))

\* DataCleaner.clean_all on a dataset a step may fail on: the cleaner it
\* leaves, the exception that left it, whether end_timestamp was assigned
clean_all_may_raise(st) == run_steps(st, CleanAllBody)

(***************************************************************************)
(* DataHealthMetrics.  A score is the exact ratio [num, den] in lowest     *)
(* terms of the quotient the code computes in floating point; FloatNaN is  *)
(* the float nan.  An engine is [heap, df_ref, timestamp]; a method that   *)
(* reads the snapshot through pandas maps the engine to the heap after the *)
(* call and what the call returns or raises.                               *)
(***************************************************************************)
RECURSIVE Gcd(_, _)
Gcd(a, b) == IF b = 0 THEN a ELSE Gcd(b, a % b)

Ratio(n, d) == [num |-> n \div Gcd(n, d), den |-> d \div Gcd(n, d)]

FloatNaN == [num |-> 0, den |-> 0]
IsNumber(x) == x.den # 0

\* a + b and a * n / d on floats: nan is absorbing
FAdd(a, b) ==
    IF ~IsNumber(a) \/ ~IsNumber(b) THEN FloatNaN
    ELSE Ratio(a.num * b.den + b.num * a.den, a.den * b.den)
FScale(a, n, d) ==
    IF ~IsNumber(a) THEN FloatNaN ELSE Ratio(a.num * n, a.den * d)

\* sum(scores)
RECURSIVE FSum(_)
FSum(scores) ==
    IF scores = <<>> THEN Ratio(0, 1) ELSE FAdd(Head(scores), FSum(Tail(scores)))

\* round(x, 1): to the nearest tenth, a tie to the even tenth; nan stays nan
round1(x) ==
    IF ~IsNumber(x) THEN FloatNaN
    ELSE LET t == x.num * 10
             q == t \div x.den
             r == t % x.den
         IN  Ratio(IF 2 * r < x.den THEN q
                   ELSE IF 2 * r > x.den THEN q + 1
                   ELSE IF q % 2 = 0 THEN q ELSE q + 1, 10)

\* how a call ends
Return(v) == [k |-> "return", v |-> v]
Raise(exc) == [k |-> "raise", exc |-> exc]

\* self.df of an engine
HealthDf(st) == st.heap[st.df_ref]

\* DataHealthMetrics.__init__(df) at time t
ConstructMetrics(h, df, t) ==
    [heap |-> [h EXCEPT ![HealthSlot] = h[df]],
     df_ref |-> DfCopy(df, HealthSlot),
     timestamp |-> Time(t)]

\* df.head(n)
DfHead(df, n) == SelectRows(df, 1..n)

\* completeness that takes an empty dataset for a complete one
calculate_completeness_score_empty_is_full(df) ==
    IF IsEmpty(df) THEN Ratio(100, 1)
    ELSE LET total_cells == NRows(df) * Cardinality(df.cols)
             null_cells == Cardinality({ic \in (1..NRows(df)) \X df.cols :
                                          IsNa(df.rows[ic[1]].cells[ic[2]])})
             non_null_cells == total_cells - null_cells
         IN  Ratio(non_null_cells * 100, total_cells)

\* DataHealthMetrics.calculate_completeness_score
calculate_completeness_score(df) ==
    IF IsEmpty(df) THEN Ratio(0, 1)
    ELSE LET total_cells == NRows(df) * Cardinality(df.cols)
             null_cells == Cardinality({ic \in (1..NRows(df)) \X df.cols :
                                          IsNa(df.rows[ic[1]].cells[ic[2]])})
             non_null_cells == total_cells - null_cells
         IN  Ratio(non_null_cells * 100, total_cells)

\* the share of the rows that repeat an earlier row
calculate_duplicate_score_of_repeats(df) ==
    IF NRows(df) = 0 THEN Ratio(100, 1)
    ELSE LET unique_rows == NRows(drop_duplicates(df))
             total_rows == NRows(df)
         IN  Ratio((total_rows - unique_rows) * 100, total_rows)

\* DataHealthMetrics.calculate_duplicate_score
calculate_duplicate_score(df) ==
    IF NRows(df) = 0 THEN Ratio(100, 1)
    ELSE LET unique_rows == NRows(drop_duplicates(df))
             total_rows == NRows(df)
         IN  Ratio(unique_rows * 100, total_rows)

NameChars == LetterSet \cup Whitespace \cup {"'", ".", "-"}

\* DataHealthMetrics._is_valid_name: re.match(r'^[a-zA-Z\s\'.-]+$', name_str)
\* on the stripped text, which must not be empty
is_valid_name(c) ==
    IF IsNa(c) THEN FALSE
    ELSE LET name_str == StrStrip(AsStr(c))
         IN  /\ \A i \in 1..Len(name_str) : name_str[i] \in NameChars
             /\ Len(name_str) > 0

\* _count_valid_dates that stores the parsed column in the snapshot
count_valid_dates_in_place(st, column) ==
    LET parsed == to_datetime(Column(HealthDf(st), column))
    IN  [heap |-> [st.heap EXCEPT
                     ![st.df_ref] = SetColumn(HealthDf(st), column, parsed)],
         count |-> Len(parsed) - CountNa(parsed)]

\* DataHealthMetrics._count_valid_dates: the heap after the call and the
\* number of cells of the column that parse
count_valid_dates(st, column) ==
    LET parsed == to_datetime(Column(HealthDf(st), column))
    IN  [heap |-> st.heap, count |-> Len(parsed) - CountNa(parsed)]

\* the type of the sum of an empty Email or Name column: the Python int 0
\* of an object column, or the numpy 0.0 of a float64 column
EmptySums == {"int", "numpy"}

\* formatting score that averages over the three columns, present or not
calculate_formatting_score_over_three(st, esum) ==
    LET df == HealthDf(st)
        n == NRows(df)
        pct(valid) == IF n = 0 THEN FloatNaN ELSE Ratio(valid * 100, n)
    IN  Bind(IF "Join_Date" \in df.cols
             THEN count_valid_dates(st, "Join_Date")
             ELSE [heap |-> st.heap, count |-> 0], LAMBDA dates :
    LET email_scores ==
            IF "Email" \in df.cols
            THEN <<pct(Cardinality({i \in 1..n :
                         is_valid_email(df.rows[i].cells["Email"])}))>>
            ELSE <<>>
        date_scores ==
            IF "Join_Date" \in df.cols THEN <<pct(dates.count)>> ELSE <<>>
        name_scores ==
            IF "Name" \in df.cols
            THEN <<pct(Cardinality({i \in 1..n :
                         is_valid_name(df.rows[i].cells["Name"])}))>>
            ELSE <<>>
    IN  IF "Email" \in df.cols /\ n = 0 /\ esum = "int"
        THEN [heap |-> st.heap, out |-> Raise("ZeroDivisionError")]
        ELSE IF "Name" \in df.cols /\ n = 0 /\ esum = "int"
        THEN [heap |-> dates.heap, out |-> Raise("ZeroDivisionError")]
        ELSE Bind(email_scores \o date_scores \o name_scores, LAMBDA scores :
             [heap |-> dates.heap,
              out |-> Return(IF scores = <<>> THEN Ratio(100, 1)
                             ELSE FScale(FSum(scores), 1, 3))]))

\* DataHealthMetrics.calculate_formatting_score.  Each present column
\* appends valid / len(self.df) * 100 to scores, Email first, then
\* Join_Date, then Name.  On a dataset without rows the division is by
\* zero: it raises ZeroDivisionError when the sum is a Python int and
\* gives nan when it is a numpy number, as the count of valid dates is.
calculate_formatting_score(st, esum) ==
    LET df == HealthDf(st)
        n == NRows(df)
        pct(valid) == IF n = 0 THEN FloatNaN ELSE Ratio(valid * 100, n)
    IN  Bind(IF "Join_Date" \in df.cols
             THEN count_valid_dates(st, "Join_Date")
             ELSE [heap |-> st.heap, count |-> 0], LAMBDA dates :
    LET email_scores ==
            IF "Email" \in df.cols
            THEN <<pct(Cardinality({i \in 1..n :
                         is_valid_email(df.rows[i].cells["Email"])}))>>
            ELSE <<>>
        date_scores ==
            IF "Join_Date" \in df.cols THEN <<pct(dates.count)>> ELSE <<>>
        name_scores ==
            IF "Name" \in df.cols
            THEN <<pct(Cardinality({i \in 1..n :
                         is_valid_name(df.rows[i].cells["Name"])}))>>
            ELSE <<>>
    IN  IF "Email" \in df.cols /\ n = 0 /\ esum = "int"
        THEN [heap |-> st.heap, out |-> Raise("ZeroDivisionError")]
        ELSE IF "Name" \in df.cols /\ n = 0 /\ esum = "int"
        THEN [heap |-> dates.heap, out |-> Raise("ZeroDivisionError")]
        ELSE Bind(email_scores \o date_scores \o name_scores, LAMBDA scores :
             [heap |-> dates.heap,
              out |-> Return(IF scores = <<>> THEN Ratio(100, 1)
                             ELSE FScale(FSum(scores), 1, Len(scores)))]))

\* the overall score computed from the component scores as reported, each
\* rounded to one decimal
calculate_overall_health_score_from_rounded(st, esum) ==
    LET completeness == round1(calculate_completeness_score(HealthDf(st)))
        duplicates == round1(calculate_duplicate_score(HealthDf(st)))
    IN  Bind(calculate_formatting_score(st, esum), LAMBDA formatting :
        IF formatting.out.k = "raise" THEN formatting
        ELSE LET overall == FAdd(FAdd(FScale(completeness, 4, 10),
                                      FScale(duplicates, 3, 10)),
                                 FScale(round1(formatting.out.v), 3, 10))
             IN  [heap |-> formatting.heap, out |-> Return(round1(overall))])

\* DataHealthMetrics.calculate_overall_health_score: an exception of
\* calculate_formatting_score propagates
calculate_overall_health_score(st, esum) ==
    LET completeness == calculate_completeness_score(HealthDf(st))
        duplicates == calculate_duplicate_score(HealthDf(st))
    IN  Bind(calculate_formatting_score(st, esum), LAMBDA formatting :
        IF formatting.out.k = "raise" THEN formatting
        ELSE LET overall == FAdd(FAdd(FScale(completeness, 4, 10),
                                      FScale(duplicates, 3, 10)),
                                 FScale(formatting.out.v, 3, 10))
             IN  [heap |-> formatting.heap, out |-> Return(round1(overall))])

\* the engine with the heap a call left
WithHeap(st, h) == [st EXCEPT !.heap = h]

\* DataHealthMetrics.get_all_metrics: the dictionary, its values computed
\* in the order they are written
get_all_metrics(st, esum) ==
    LET completeness == calculate_completeness_score(HealthDf(st))
        duplicates == calculate_duplicate_score(HealthDf(st))
    IN  Bind(calculate_formatting_score(st, esum), LAMBDA formatting :
        IF formatting.out.k = "raise" THEN formatting
        ELSE Bind(calculate_overall_health_score(
                     WithHeap(st, formatting.heap), esum),
                  LAMBDA overall :
             IF overall.out.k = "raise" THEN overall
             ELSE [heap |-> overall.heap,
                   out |-> Return(
                      [completeness_score |-> round1(completeness),
                       duplicate_score |-> round1(duplicates),
                       formatting_score |-> round1(formatting.out.v),
                       overall_score |-> overall.out.v,
                       timestamp |-> st.timestamp])]))

\* DataHealthMetrics.get_detailed_metrics
get_detailed_metrics(st, esum) ==
    LET df == HealthDf(st)
        total_records == NRows(df)
        total_cells == NRows(df) * Cardinality(df.cols)
        null_cells == Cardinality({ic \in (1..NRows(df)) \X df.cols :
                                     IsNa(df.rows[ic[1]].cells[ic[2]])})
        duplicates == total_records - NRows(drop_duplicates(df))
    IN  Bind(calculate_formatting_score(st, esum), LAMBDA formatting :
        IF formatting.out.k = "raise" THEN formatting
        ELSE Bind(calculate_overall_health_score(
                     WithHeap(st, formatting.heap), esum),
                  LAMBDA overall :
             IF overall.out.k = "raise" THEN overall
             ELSE [heap |-> overall.heap,
                   out |-> Return(
                      [total_records |-> total_records,
                       total_cells |-> total_cells,
                       null_cells |-> null_cells,
                       non_null_cells |-> total_cells - null_cells,
                       duplicate_records |-> duplicates,
                       unique_records |-> total_records - duplicates,
                       completeness_score |->
                           round1(calculate_completeness_score(df)),
                       duplicate_score |-> round1(calculate_duplicate_score(df)),
                       formatting_score |-> round1(formatting.out.v),
                       overall_score |-> overall.out.v,
                       timestamp |-> st.timestamp])]))

(***************************************************************************)
(* Input datasets: every column subset, up to MaxRows rows drawn from      *)
(* RecordPool and projected on the columns, and the datasets of up to      *)
(* MaxDateRows rows that have the Join_Date column only, their cells drawn *)
(* from DatePool.  A frame without columns has no rows.                    *)
(***************************************************************************)
Member == Str(<<"M","e","m","b","e","r">>)
Admin == Str(<<"A","d","m","i","n">>)

Iso0115 == Str(<<"2","0","2","3","-","0","1","-","1","5">>)
Iso0220 == Str(<<"2","0","2","3","-","0","2","-","2","0">>)
Us1225 == Str(<<"1","2","/","2","5","/","2","0","2","2">>)
Unknown == Str(<<"U","n","k","n","o","w","n">>)

Rec(name, email, date, att, role) ==
    [Name |-> name, Email |-> email, Join_Date |-> date,
     Event_Attendance |-> att, Role |-> role]

RecordPool ==
    { Rec(Str(<<"j","o"," ","d">>), Str(<<"a","@","b",".","c","o">>),
          Iso0115, Num(5), Member),
      Rec(Str(<<"J","O"," ","D">>), Str(<<"A","@","B",".","c","o">>),
          Unknown, NaN, Member),
      Rec(Str(<<"j","o"," ","d">>), Str(<<" ","a"," ","a","t"," ","b",".","c","o">>),
          Us1225, Num(5), Member),
      Rec(Str(<<"A","l">>), Str(<<"c","@","d",".","e">>),
          Us1225, Num(0), Admin),
      Rec(Str(<<"A","l">>), NaN, NaN, NaN, Admin),
      Rec(NaN, Str(<<"N","a","N">>), Unknown, Num(0), Admin) }

MkDf(cols, recs) ==
    [cols |-> cols,
     rows |-> [i \in 1..Len(recs) |->
                 [idx |-> i - 1, cells |-> [c \in cols |-> recs[i][c]]]]]

DatePool == {Iso0115, Iso0220, Unknown, NaN}

DateDatasets ==
    { MkDf({"Join_Date"}, [i \in 1..Len(cells) |-> [Join_Date |-> cells[i]]]) :
        cells \in UNION {[1..n -> DatePool] : n \in 1..MaxDateRows} }

InputDatasets ==
    { d \in { MkDf(cols, recs) :
                cols \in SUBSET Cols,
                recs \in UNION {[1..n -> RecordPool] : n \in 0..MaxRows} } :
        d.cols # {} \/ d.rows = <<>> }
    \cup DateDatasets

(***************************************************************************)
(* Operations.                                                             *)
(***************************************************************************)
StepNames == {"standardize_names", "fix_emails", "remove_duplicates",
              "clean_dates", "handle_missing_values"}

\* the selections of steps tried on the button
Selections == {StepNames, {"remove_duplicates"},
               {"fix_emails", "standardize_names", "clean_dates"}}

\* no tutorial panel is drawn
NoPanel == [k |-> "none"]

\* a session in which the dashboard script has not run: the values
\* initialize_session_state and the sidebar give a new session
NewSession ==
    [show_welcome |-> TRUE, tutorial_mode |-> FALSE, tutorial_step |-> 0,
     cleaning_steps |-> StepNames]

\* the dashboard is not running
UiIdle ==
    /\ session_state = NewSession
    /\ data_exists = FALSE
    /\ rendered = {}
    /\ panel = NoPanel

Cur == [heap |-> heap, raw_ref |-> raw_ref, clean_ref |-> clean_ref, log |-> log]

Snapshot == [df |-> heap[clean_ref], log |-> log]

Init ==
    \E d \in InputDatasets :
        LET c == Construct([r \in Refs |-> d], CallerRef)
        IN  /\ input = d
            /\ heap = c.heap
            /\ raw_ref = c.raw_ref
            /\ clean_ref = c.clean_ref
            /\ log = c.log
            /\ now = 0
            /\ start_timestamp = Time(0)
            /\ end_timestamp = None
            /\ lastOp = "__init__"
            /\ pre = [df |-> d, log |-> <<>>]
            /\ steps_arg = {}
            /\ raised = FALSE
            /\ returned = "self"
            /\ session_cleaned = FALSE
            /\ error_shown = FALSE
            /\ health = None
            /\ empty_sum = "int"
            /\ UiIdle

\* a step call that also sets end_timestamp
StepCallStamping(name, st) ==
    /\ heap' = st.heap
    /\ raw_ref' = st.raw_ref
    /\ clean_ref' = st.clean_ref
    /\ log' = st.log
    /\ now' = now + 1
    /\ end_timestamp' = Time(now + 1)
    /\ lastOp' = name
    /\ pre' = Snapshot
    /\ steps_arg' = {}
    /\ raised' = FALSE
    /\ returned' = "None"
    /\ error_shown' = FALSE
    /\ UNCHANGED <<input, start_timestamp, session_cleaned, health, empty_sum, ui_vars>>

\* a call of one step on the cleaner: it returns None
StepCall(name, st) ==
    /\ heap' = st.heap
    /\ raw_ref' = st.raw_ref
    /\ clean_ref' = st.clean_ref
    /\ log' = st.log
    /\ now' = now + 1
    /\ lastOp' = name
    /\ pre' = Snapshot
    /\ steps_arg' = {}
    /\ raised' = FALSE
    /\ returned' = "None"
    /\ error_shown' = FALSE
    /\ UNCHANGED <<input, start_timestamp, end_timestamp, session_cleaned,
                   health, empty_sum, ui_vars>>

CallStandardizeNames ==
    /\ now < MaxCalls
    /\ \E st \in {standardize_names(Cur)} : StepCall("standardize_names", st)
CallFixEmails ==
    /\ now < MaxCalls
    /\ \E st \in {fix_emails(Cur)} : StepCall("fix_emails", st)
CallRemoveDuplicates ==
    /\ now < MaxCalls
    /\ \E st \in {remove_duplicates(Cur)} : StepCall("remove_duplicates", st)
CallCleanDates ==
    /\ now < MaxCalls
    /\ \E st \in {clean_dates(Cur)} : StepCall("clean_dates", st)
CallHandleMissingValues ==
    /\ now < MaxCalls
    /\ \E st \in {handle_missing_values(Cur)} :
          StepCall("handle_missing_values", st)

\* cleaner.clean_all(): the five steps, then end_timestamp; returns
\* self.clean_df
CallCleanAll ==
    /\ now < MaxCalls
    /\ \E st \in {clean_all(Cur)} :
           /\ heap' = st.heap
           /\ raw_ref' = st.raw_ref
           /\ clean_ref' = st.clean_ref
           /\ log' = st.log
    /\ now' = now + 1
    /\ end_timestamp' = Time(now + 1)
    /\ lastOp' = "clean_all"
    /\ pre' = Snapshot
    /\ steps_arg' = {}
    /\ raised' = FALSE
    /\ returned' = "self.clean_df"
    /\ error_shown' = FALSE
    /\ UNCHANGED <<input, start_timestamp, session_cleaned, health, empty_sum, ui_vars>>

\* the keyword parameters of def clean_all(self)
CleanAllParams == {}

\* a call binds iff every keyword it passes is a parameter; otherwise
\* Python raises TypeError before the body runs
Binds(params, kwargs) == kwargs \subseteq params

\* the "Run Cleaning Algorithms" button with the steps selected in the
\* sidebar: cleaner = DataCleaner(raw_df);
\* clean_df = cleaner.clean_all(steps=selected_steps); on success the
\* session is marked cleaned, on any exception the error is shown
RunCleaningButton(selected_steps) ==
    /\ now < MaxCalls
    /\ selected_steps # {}
    /\ \E c \in {Construct(heap, CallerRef)} :
           IF Binds(CleanAllParams, {"steps"})
           THEN \E st \in {clean_all(c)} :
                    /\ heap' = st.heap
                    /\ raw_ref' = st.raw_ref
                    /\ clean_ref' = st.clean_ref
                    /\ log' = st.log
                    /\ end_timestamp' = Time(now + 1)
                    /\ raised' = FALSE
                    /\ returned' = "self.clean_df"
                    /\ session_cleaned' = TRUE
                    /\ error_shown' = FALSE
           ELSE /\ heap' = c.heap
                /\ raw_ref' = c.raw_ref
                /\ clean_ref' = c.clean_ref
                /\ log' = c.log
                /\ end_timestamp' = None
                /\ raised' = TRUE
                /\ returned' = "nothing"
                /\ session_cleaned' = session_cleaned
                /\ error_shown' = TRUE
    /\ start_timestamp' = Time(now)
    /\ now' = now + 1
    /\ lastOp' = "clean_all(steps)"
    /\ pre' = [df |-> heap[CallerRef], log |-> <<>>]
    /\ steps_arg' = selected_steps
    /\ UNCHANGED <<input, health, empty_sum, ui_vars>>

Next ==
    \/ CallStandardizeNames
    \/ CallFixEmails
    \/ CallRemoveDuplicates
    \/ CallCleanDates
    \/ CallHandleMissingValues
    \/ CallCleanAll
    \/ \E selected_steps \in Selections : RunCleaningButton(selected_steps)

Spec == Init /\ [][Next]_vars

(***************************************************************************)
(* The health engine on its own: a DataHealthMetrics constructed on a      *)
(* dataset of MetricsDatasets (every column subset with up to              *)
(* MaxMetricRows rows of MetricsPool, and the columns ScoreCols with up to *)
(* MaxScoreRows rows), then calls of its methods, and the caller replacing *)
(* the engine's snapshot (metrics.df = metrics.df.head(1)).                *)
(***************************************************************************)
MetricsPool ==
    { Rec(Str(<<"j","o"," ","d">>), Str(<<"a","@","b",".","c","o">>),
          Iso0115, Num(5), Member),
      Rec(Str(<<"J","O"," ","D">>), Str(<<"A","@","B",".","c","o">>),
          Unknown, NaN, Member),
      Rec(Str(<<"A","l">>), Str(<<"c","@","d",".","e">>),
          Us1225, Num(0), Admin),
      Rec(Str(<<"A","l">>), NaN, NaN, NaN, Admin),
      Rec(Str(<<"x","1">>), Str(<<"a","@","b",".","c","o">>),
          Iso0220, Num(5), Member) }

\* the columns of the datasets that have up to MaxScoreRows rows, so that
\* the scores are thirds and ninths
ScoreCols == {"Name", "Email", "Event_Attendance"}

MetricsDatasets ==
    { d \in { MkDf(cols, recs) :
                cols \in SUBSET Cols,
                recs \in UNION {[1..n -> MetricsPool] : n \in 0..MaxMetricRows} } :
        d.cols # {} \/ d.rows = <<>> }
    \cup { MkDf(ScoreCols, recs) :
             recs \in UNION {[1..n -> MetricsPool] : n \in 1..MaxScoreRows} }

ScoreMethods == {"calculate_completeness_score", "calculate_duplicate_score",
                 "calculate_formatting_score", "calculate_overall_health_score"}
ReportMethods == {"get_all_metrics", "get_detailed_metrics"}

HealthCur == [heap |-> heap, df_ref |-> health.df_ref,
              timestamp |-> health.timestamp]

MetricsInit ==
    \E d \in MetricsDatasets :
        LET c == Construct([r \in Refs |-> d], CallerRef)
            m == ConstructMetrics(c.heap, CallerRef, 0)
        IN  /\ input = d
            /\ heap = m.heap
            /\ raw_ref = c.raw_ref
            /\ clean_ref = c.clean_ref
            /\ log = c.log
            /\ now = 0
            /\ start_timestamp = Time(0)
            /\ end_timestamp = None
            /\ lastOp = "__init__"
            /\ pre = [df |-> d, log |-> <<>>]
            /\ steps_arg = {}
            /\ raised = FALSE
            /\ returned = "self"
            /\ session_cleaned = FALSE
            /\ error_shown = FALSE
            /\ health = [df_ref |-> m.df_ref, timestamp |-> m.timestamp]
            /\ empty_sum \in (IF d.rows = <<>> THEN EmptySums ELSE {"int"})
            /\ UiIdle

\* a call of a method of the engine that ends as res: [heap, out]
MetricCall(name, res) ==
    /\ heap' = res.heap
    /\ returned' = res.out
    /\ raised' = (res.out.k = "raise")
    /\ lastOp' = name
    /\ now' = now + 1
    /\ UNCHANGED <<raw_ref, clean_ref, log, start_timestamp, end_timestamp,
                   input, pre, steps_arg, session_cleaned, error_shown,
                   health, empty_sum, ui_vars>>

CallCompletenessScore ==
    /\ now < MaxMetricCalls
    /\ MetricCall("calculate_completeness_score",
          [heap |-> heap,
           out |-> Return(calculate_completeness_score(HealthDf(HealthCur)))])
CallDuplicateScore ==
    /\ now < MaxMetricCalls
    /\ MetricCall("calculate_duplicate_score",
          [heap |-> heap,
           out |-> Return(calculate_duplicate_score(HealthDf(HealthCur)))])
CallFormattingScore ==
    /\ now < MaxMetricCalls
    /\ \E res \in {calculate_formatting_score(HealthCur, empty_sum)} :
          MetricCall("calculate_formatting_score", res)
CallOverallHealthScore ==
    /\ now < MaxMetricCalls
    /\ \E res \in {calculate_overall_health_score(HealthCur, empty_sum)} :
          MetricCall("calculate_overall_health_score", res)
CallGetAllMetrics ==
    /\ now < MaxMetricCalls
    /\ \E res \in {get_all_metrics(HealthCur, empty_sum)} :
          MetricCall("get_all_metrics", res)
CallGetDetailedMetrics ==
    /\ now < MaxMetricCalls
    /\ \E res \in {get_detailed_metrics(HealthCur, empty_sum)} :
          MetricCall("get_detailed_metrics", res)

\* the caller's metrics.df = metrics.df.head(1): the attribute is bound to
\* the new DataFrame head returns
ReplaceSnapshot ==
    /\ now < MaxMetricCalls
    /\ heap' = [heap EXCEPT ![HeadSlot] = DfHead(heap[health.df_ref], 1)]
    /\ health' = [health EXCEPT !.df_ref = HeadSlot]
    /\ returned' = Return(None)
    /\ raised' = FALSE
    /\ lastOp' = "df = df.head(1)"
    /\ now' = now + 1
    /\ UNCHANGED <<raw_ref, clean_ref, log, start_timestamp, end_timestamp,
                   input, pre, steps_arg, session_cleaned, error_shown,
                   empty_sum, ui_vars>>

MetricsNext ==
    \/ CallCompletenessScore
    \/ CallDuplicateScore
    \/ CallFormattingScore
    \/ CallOverallHealthScore
    \/ CallGetAllMetrics
    \/ CallGetDetailedMetrics
    \/ ReplaceSnapshot

MetricsSpec == MetricsInit /\ [][MetricsNext]_vars

(***************************************************************************)
(* Step failures: the cleaner on datasets some cell of which is a list, on *)
(* which fix_emails and remove_duplicates raise.                           *)
(***************************************************************************)
MaxFailRows == 2

\* a clean row; a row whose Email is a list; a row with a valid Email and a
\* list in Role; a row with a list in Role that fix_emails drops
FailurePool ==
    { Rec(Str(<<"j","o"," ","d">>), Str(<<"A","@","b",".","c","o">>),
          Iso0115, Num(5), Member),
      Rec(Str(<<"A","l">>), ListCell, Us1225, NaN, Admin),
      Rec(Str(<<"A","l">>), Str(<<"c","@","d",".","e">>), Unknown, NaN, ListCell),
      Rec(NaN, NaN, NaN, Num(0), ListCell) }

FailureDatasets ==
    { d \in { MkDf(cols, recs) :
                cols \in SUBSET Cols,
                recs \in UNION {[1..n -> FailurePool] : n \in 0..MaxFailRows} } :
        d.cols # {} \/ d.rows = <<>> }

FailureInit ==
    \E d \in FailureDatasets :
        LET c == Construct([r \in Refs |-> d], CallerRef)
        IN  /\ input = d
            /\ heap = c.heap
            /\ raw_ref = c.raw_ref
            /\ clean_ref = c.clean_ref
            /\ log = c.log
            /\ now = 0
            /\ start_timestamp = Time(0)
            /\ end_timestamp = None
            /\ lastOp = "__init__"
            /\ pre = [df |-> d, log |-> <<>>]
            /\ steps_arg = {}
            /\ raised = FALSE
            /\ returned = "self"
            /\ session_cleaned = FALSE
            /\ error_shown = FALSE
            /\ health = None
            /\ empty_sum = "int"
            /\ UiIdle

\* a call that ends as out: [st, exc, stamped]; what it returns is ret
CallEnds(name, out, ret) ==
    /\ heap' = out.st.heap
    /\ raw_ref' = out.st.raw_ref
    /\ clean_ref' = out.st.clean_ref
    /\ log' = out.st.log
    /\ now' = now + 1
    /\ end_timestamp' = IF out.stamped THEN Time(now + 1) ELSE end_timestamp
    /\ lastOp' = name
    /\ pre' = Snapshot
    /\ steps_arg' = {}
    /\ raised' = (out.exc # NoException)
    /\ returned' = IF out.exc # NoException THEN Raise(out.exc) ELSE ret
    /\ error_shown' = FALSE
    /\ UNCHANGED <<input, start_timestamp, session_cleaned, health, empty_sum, ui_vars>>

\* a call of one step by the caller
CallStepMayRaise(name) ==
    /\ now < MaxCalls
    /\ \E out \in {run_steps(Cur, <<name>>)} :
          CallEnds(name, [out EXCEPT !.stamped = FALSE], "None")

CallCleanAllMayRaise ==
    /\ now < MaxCalls
    /\ \E out \in {clean_all_may_raise(Cur)} :
          CallEnds("clean_all", out, "self.clean_df")

FailureNext ==
    \/ \E name \in StepNames : CallStepMayRaise(name)
    \/ CallCleanAllMayRaise

FailureSpec == FailureInit /\ [][FailureNext]_vars

(***************************************************************************)
(* The dashboard script (app.py).  Streamlit runs the whole script again   *)
(* whenever the user operates a widget the last run drew; during that run  *)
(* the operated button's st.button is True, and st.rerun() abandons the    *)
(* run and starts the script again with no widget operated.  u is          *)
(* [ss, data, cleaned]: st.session_state, whether the data file exists,    *)
(* and st.session_state['cleaned'].                                        *)
(***************************************************************************)
\* no button is pressed and no checkbox changed in this run
NoWidget == "none"

WelcomeButtons == {"Dismiss", "Start Tutorial", "Get Started"}

\* len(tutorial_steps): the tutorial's steps are 0 .. 4
TutorialLen == 5

\* the steps the script calls show_tutorial_step with before the "Run
\* Cleaning Algorithms" button (app.py 498, 646, 663) and after it (733)
TutorialCallsBefore == <<1, 2, 3>>
TutorialCallsAfter == <<4>>

\* show_tutorial_step(step) in a run in which widget is operated: the
\* session it leaves, whether it drew the panel, whether it took the
\* completion branch, whether it called st.rerun(), the buttons it drew
show_tutorial_step(step, ss, widget) ==
    LET quiet == [ss |-> ss, shown |-> FALSE, completed |-> FALSE,
                  rerun |-> FALSE, buttons |-> {}]
        current_step == ss.tutorial_step
        buttons == {"Skip Tutorial", "Next"}
                   \cup (IF current_step > 0 THEN {"Previous"} ELSE {})
    IN  IF ~ss.tutorial_mode THEN quiet
        ELSE IF current_step # step THEN quiet
        ELSE IF current_step >= TutorialLen
        THEN [quiet EXCEPT !.ss.tutorial_mode = FALSE, !.completed = TRUE]
        ELSE IF widget = "Skip Tutorial"
        THEN [quiet EXCEPT !.ss.tutorial_mode = FALSE, !.rerun = TRUE]
        ELSE IF widget = "Previous" /\ current_step > 0
        THEN [quiet EXCEPT !.ss.tutorial_step = current_step - 1,
                           !.rerun = TRUE]
        ELSE IF widget = "Next"
        THEN [quiet EXCEPT !.ss.tutorial_step = current_step + 1,
                           !.rerun = TRUE]
        ELSE [quiet EXCEPT !.shown = TRUE, !.buttons = buttons]

\* the calls show_tutorial_step(s) for s in steps, one after the other,
\* until one calls st.rerun(); acc is [ss, rerun, panel, buttons]
RECURSIVE tutorial_calls(_, _, _)
tutorial_calls(steps, acc, widget) ==
    IF steps = <<>> THEN acc
    ELSE IF acc.rerun THEN acc
    ELSE Bind(show_tutorial_step(Head(steps), acc.ss, widget), LAMBDA t :
         tutorial_calls(Tail(steps),
            [ss |-> t.ss,
             rerun |-> t.rerun,
             panel |-> IF t.shown THEN [k |-> "step", step |-> Head(steps)]
                       ELSE IF t.completed THEN [k |-> "completed"]
                       ELSE acc.panel,
             buttons |-> acc.buttons \cup t.buttons],
            widget))

\* one run of app.py in which widget is operated: the state it leaves, the
\* widgets and the tutorial panel it draws, whether it shows the cleaning
\* error.  Top to bottom: the welcome modal's buttons (ui_helpers.py
\* 104-119), "Generate New Data" (app.py 190), the step checkboxes (230),
\* "Reset to Raw Data" (351), st.stop() without a data file (461), the
\* tutorial calls and the "Run Cleaning Algorithms" button (665), which is
\* disabled when no step is selected.
RECURSIVE script_run(_, _)
script_run(u, widget) ==
    IF u.ss.show_welcome /\ widget \in {"Dismiss", "Get Started"}
    THEN script_run([u EXCEPT !.ss.show_welcome = FALSE], NoWidget)
    ELSE IF u.ss.show_welcome /\ widget = "Start Tutorial"
    THEN script_run([u EXCEPT !.ss.show_welcome = FALSE,
                              !.ss.tutorial_mode = TRUE,
                              !.ss.tutorial_step = 0], NoWidget)
    ELSE IF widget = "Generate New Data"
    THEN script_run([u EXCEPT !.data = TRUE, !.cleaned = FALSE], NoWidget)
    ELSE Bind(IF widget \in StepNames
              THEN [u EXCEPT !.ss.cleaning_steps =
                       IF widget \in @ THEN @ \ {widget} ELSE @ \cup {widget}]
              ELSE u, LAMBDA u1 :
         IF u1.cleaned /\ widget = "Reset to Raw Data"
         THEN script_run([u1 EXCEPT !.cleaned = FALSE], NoWidget)
         ELSE LET sidebar ==
                      (IF u1.ss.show_welcome THEN WelcomeButtons ELSE {})
                      \cup {"Generate New Data"} \cup StepNames
                      \cup (IF u1.cleaned THEN {"Reset to Raw Data"} ELSE {})
                  start == [ss |-> u1.ss, rerun |-> FALSE, panel |-> NoPanel,
                            buttons |-> {}]
              IN  IF ~u1.data
                  THEN [u |-> u1, rendered |-> sidebar, panel |-> NoPanel,
                        error |-> FALSE]
                  ELSE Bind(tutorial_calls(TutorialCallsBefore, start, widget),
                            LAMBDA a :
                       IF a.rerun
                       THEN script_run([u1 EXCEPT !.ss = a.ss], NoWidget)
                       ELSE LET enabled == a.ss.cleaning_steps # {}
                                pressed ==
                                    enabled /\ widget = "Run Cleaning Algorithms"
                            IN  IF pressed /\ Binds(CleanAllParams, {"steps"})
                                THEN script_run([u1 EXCEPT !.ss = a.ss,
                                                           !.cleaned = TRUE],
                                                NoWidget)
                                ELSE Bind(tutorial_calls(TutorialCallsAfter, a,
                                                         widget), LAMBDA b :
                                     IF b.rerun
                                     THEN script_run([u1 EXCEPT !.ss = b.ss],
                                                     NoWidget)
                                     ELSE [u |-> [u1 EXCEPT !.ss = b.ss],
                                           rendered |->
                                              sidebar \cup b.buttons \cup
                                              (IF enabled
                                               THEN {"Run Cleaning Algorithms"}
                                               ELSE {}),
                                           panel |-> b.panel,
                                           error |-> pressed])))

\* the dashboard as the last run left it
Dashboard ==
    [ss |-> session_state, data |-> data_exists, cleaned |-> session_cleaned]

\* the run out ended: its state and what it drew
RunEnds(out) ==
    /\ session_state' = out.u.ss
    /\ data_exists' = out.u.data
    /\ session_cleaned' = out.u.cleaned
    /\ rendered' = out.rendered
    /\ panel' = out.panel
    /\ error_shown' = out.error

\* the first run of the script in a new session, with or without a data
\* file left by an earlier session; no cleaner exists
TutorialInit ==
    /\ \E data \in BOOLEAN :
          \E out \in {script_run([ss |-> NewSession, data |-> data,
                                  cleaned |-> FALSE], NoWidget)} :
             /\ session_state = out.u.ss
             /\ data_exists = out.u.data
             /\ session_cleaned = out.u.cleaned
             /\ rendered = out.rendered
             /\ panel = out.panel
             /\ error_shown = out.error
    /\ input = MkDf({}, <<>>)
    /\ heap = [r \in Refs |-> MkDf({}, <<>>)]
    /\ raw_ref = RawSlot
    /\ clean_ref = CleanSlot
    /\ log = <<>>
    /\ now = 0
    /\ start_timestamp = Time(0)
    /\ end_timestamp = None
    /\ lastOp = NoWidget
    /\ pre = [df |-> MkDf({}, <<>>), log |-> <<>>]
    /\ steps_arg = {}
    /\ raised = FALSE
    /\ returned = "self"
    /\ health = None
    /\ empty_sum = "int"

\* the user operates a widget the last run drew, or the script runs again
\* for another reason, and the script runs to its end
ScriptRun ==
    \E widget \in rendered \cup {NoWidget} :
        /\ \E out \in {script_run(Dashboard, widget)} : RunEnds(out)
        /\ lastOp' = widget
        /\ UNCHANGED <<heap, raw_ref, clean_ref, log, start_timestamp,
                       end_timestamp, now, input, pre, steps_arg, raised,
                       returned, health, empty_sum>>

TutorialNext == ScriptRun

TutorialSpec == TutorialInit /\ [][TutorialNext]_vars

(***************************************************************************)
(* Properties.                                                             *)
(***************************************************************************)
Clean == heap[clean_ref]

\* the positions of a frame's rows, and the index labels of a frame
Pos(df) == 1..NRows(df)
Labels(df) == {df.rows[i].idx : i \in Pos(df)}

\* two rows are equal in every column
SameRow(r1, r2) == r1.cells = r2.cells

NoIdenticalRows(df) ==
    \A i, j \in Pos(df) : i # j => ~SameRow(df.rows[i], df.rows[j])

\* the steps of a selection applied in the canonical order 1..5
RunSelected(sel, st) ==
    Bind(IF "standardize_names" \in sel THEN standardize_names(st) ELSE st,
         LAMBDA s1 :
    Bind(IF "fix_emails" \in sel THEN fix_emails(s1) ELSE s1, LAMBDA s2 :
    Bind(IF "remove_duplicates" \in sel THEN remove_duplicates(s2) ELSE s2,
         LAMBDA s3 :
    Bind(IF "clean_dates" \in sel THEN clean_dates(s3) ELSE s3, LAMBDA s4 :
    IF "handle_missing_values" \in sel THEN handle_missing_values(s4) ELSE s4))))

\* C1: the dashboard's call clean_all(steps=selected_steps) returns the
\* cleaned dataset: it raises nothing, and the new cleaner's dataset and log
\* are those of exactly the selected steps run in the canonical order on the
\* dataset passed in (an unselected step logs nothing and changes nothing).
C1_SelectedStepsRun ==
    lastOp = "clean_all(steps)" =>
        /\ ~raised
        /\ returned = "self.clean_df"
        /\ LET want == RunSelected(steps_arg, Construct(heap, CallerRef))
           IN  Clean = CleanDf(want) /\ log = want.log

\* an Email as C2 and C9 describe its standard form: trimmed, lower-cased,
\* every " at " replaced by "@"
StandardEmail(c) ==
    StrReplace(StrLower(StrStrip(AsStr(c))), <<" ", "a", "t", " ">>, <<"@">>)

\* the Email is present and its standard form passes fix_emails' validation
Fixable(c) == ~IsNa(c) /\ CleanerEmailMatch(StandardEmail(c))

\* the positions of df whose Email has the same valid standard form as row i
EmailGroup(df, i) ==
    {j \in Pos(df) : /\ Fixable(df.rows[j].cells["Email"])
                     /\ StandardEmail(df.rows[j].cells["Email"])
                          = StandardEmail(df.rows[i].cells["Email"])}

Least(S) == CHOOSE x \in S : \A y \in S : x <= y

\* C2: after clean_all on a dataset with an Email column, of the rows whose
\* Emails have the same valid standard form exactly one, the first in row
\* order, is in the output, and no two output rows have the same Email.
C2_VariantsCollapse ==
    (lastOp = "clean_all" /\ "Email" \in pre.df.cols) =>
        /\ \A i \in Pos(pre.df) :
              Fixable(pre.df.rows[i].cells["Email"]) =>
                 LET grp == {pre.df.rows[j].idx : j \in EmailGroup(pre.df, i)}
                     first == pre.df.rows[Least(EmailGroup(pre.df, i))].idx
                 IN  {k \in Pos(Clean) : Clean.rows[k].idx \in grp}
                       = {k \in Pos(Clean) : Clean.rows[k].idx = first}
                     /\ first \in Labels(Clean)
        /\ \A a, b \in Pos(Clean) :
              a # b => Clean.rows[a].cells["Email"] # Clean.rows[b].cells["Email"]

\* C2 witness: clean_all ran on rows whose Emails differ as written but
\* have one valid standard form, and kept only the first of them
C2_Witness ==
    /\ lastOp = "clean_all"
    /\ "Email" \in pre.df.cols
    /\ \E i, j \in Pos(pre.df) :
          /\ i < j
          /\ j \in EmailGroup(pre.df, i)
          /\ Fixable(pre.df.rows[i].cells["Email"])
          /\ StrLower(AsStr(pre.df.rows[i].cells["Email"]))
               # StrLower(AsStr(pre.df.rows[j].cells["Email"]))
          /\ pre.df.rows[i].idx \in Labels(Clean)
          /\ pre.df.rows[j].idx \notin Labels(Clean)

\* two Emails are equal ignoring case (two missing Emails count as equal)
SameEmailIgnoringCase(c1, c2) ==
    \/ IsNa(c1) /\ IsNa(c2)
    \/ ~IsNa(c1) /\ ~IsNa(c2) /\ StrLower(AsStr(c1)) = StrLower(AsStr(c2))

\* C3: right after remove_duplicates no two rows have Emails that are equal
\* ignoring case, and no two rows are equal in every column.
C3_NoDuplicatesLeft ==
    lastOp = "remove_duplicates" =>
        /\ NoIdenticalRows(Clean)
        /\ "Email" \in Clean.cols =>
              \A i, j \in Pos(Clean) :
                 i # j => ~SameEmailIgnoringCase(Clean.rows[i].cells["Email"],
                                                 Clean.rows[j].cells["Email"])

\* C3 witness: remove_duplicates removed a row whose Email differed from an
\* earlier row's only in case
C3_Witness ==
    /\ lastOp = "remove_duplicates"
    /\ "Email" \in pre.df.cols
    /\ \E i, j \in Pos(pre.df) :
          /\ i < j
          /\ pre.df.rows[i].cells["Email"] # pre.df.rows[j].cells["Email"]
          /\ SameEmailIgnoringCase(pre.df.rows[i].cells["Email"],
                                   pre.df.rows[j].cells["Email"])
          /\ pre.df.rows[j].idx \notin Labels(Clean)
          /\ pre.df.rows[i].idx \in Labels(Clean)

\* C4: after fix_emails the Email of every remaining row satisfies the
\* valid-email pattern of the field validator is_valid_email.
C4_EmailsPassValidator ==
    (lastOp = "fix_emails" /\ "Email" \in Clean.cols) =>
        \A i \in Pos(Clean) : is_valid_email(Clean.rows[i].cells["Email"])

\* C5: the dataset clean_all returns has no two rows equal in every column,
\* whatever columns the input has, so its duplicate_score is 100.0.
C5_OutputDeduplicated ==
    lastOp = "clean_all" =>
        /\ NoIdenticalRows(Clean)
        /\ calculate_duplicate_score(Clean) = Ratio(100, 1)

\* C6: no operation of the cleaner changes the dataset object the caller
\* passed in, and the raw snapshot stays equal to the original input.
C6_InputAndRawUntouched ==
    /\ heap[CallerRef] = input
    /\ heap[raw_ref] = input

\* C6 witness: an operation has changed the clean working copy
C6_Witness ==
    /\ lastOp \in StepNames \cup {"clean_all"}
    /\ Clean # input
    /\ Clean # pre.df

\* C7: a step called a second time, right after its first call, leaves the
\* clean dataset as the first call left it; the second remove_duplicates
\* logs 0 removed rows.
C7_StepsIdempotent ==
    [][ (lastOp \in StepNames /\ lastOp' = lastOp) =>
           /\ heap'[clean_ref'] = heap[clean_ref]
           /\ lastOp = "remove_duplicates" => log'[Len(log')].n = 0 ]_vars

\* C7 witness: a step that changed the dataset has been called twice in a row
C7_Witness ==
    /\ lastOp \in StepNames
    /\ Len(log) = 2
    /\ log[1].msg = log[2].msg
    /\ Clean = pre.df
    /\ Clean # input

\* the column a step works on
Target(step) ==
    CASE step = "standardize_names" -> "Name"
      [] step = "fix_emails" -> "Email"
      [] step = "remove_duplicates" -> "Email"
      [] step = "clean_dates" -> "Join_Date"
      [] step = "handle_missing_values" -> "Event_Attendance"

\* C8 as stated: each of the five steps, called when its target column is
\* absent, changes nothing, logs nothing and raises nothing.
C8_AbsentColumnNoOp ==
    (lastOp \in StepNames /\ Target(lastOp) \notin pre.df.cols) =>
        Clean = pre.df /\ log = pre.log /\ ~raised

\* C8 amended: standardize_names, fix_emails, clean_dates and
\* handle_missing_values, called when their target column is absent, change
\* nothing, log nothing and raise nothing; remove_duplicates called without
\* an Email column raises nothing but still drops the rows equal to an
\* earlier row in every column and appends its one log entry.
C8_AbsentColumnAmended ==
    (lastOp \in StepNames /\ Target(lastOp) \notin pre.df.cols) =>
        /\ ~raised
        /\ lastOp # "remove_duplicates" => Clean = pre.df /\ log = pre.log
        /\ lastOp = "remove_duplicates" =>
              /\ Len(log) = Len(pre.log) + 1
              /\ SubSeq(log, 1, Len(pre.log)) = pre.log
              /\ log[Len(log)].n = NRows(pre.df) - NRows(Clean)
              /\ NoIdenticalRows(Clean)
              /\ \A i \in Pos(pre.df) :
                    pre.df.rows[i] \in {Clean.rows[k] : k \in Pos(Clean)}
                    <=> ~\E j \in 1..(i - 1) : SameRow(pre.df.rows[j], pre.df.rows[i])

\* C8 witness: a step was called on a dataset with rows that lacks its
\* target column, after a step that did log
C8_Witness ==
    /\ lastOp \in StepNames \ {"remove_duplicates"}
    /\ Target(lastOp) \notin pre.df.cols
    /\ NRows(pre.df) > 0
    /\ Len(log) > 0

\* C8 witness, remove_duplicates: called without an Email column it removed
\* a row
C8_WitnessDuplicates ==
    /\ lastOp = "remove_duplicates"
    /\ "Email" \notin pre.df.cols
    /\ NRows(Clean) < NRows(pre.df)

\* the position in df of the row with index label l
PosOf(df, l) == CHOOSE i \in Pos(df) : df.rows[i].idx = l

\* the rows of df keep the relative order they have in before
OrderKept(df, before) ==
    \A a, b \in Pos(df) :
        a < b => PosOf(before, df.rows[a].idx) < PosOf(before, df.rows[b].idx)

\* C9: fix_emails rewrites each Email to its standard form (trimmed,
\* lower-cased, every " at " replaced by "@"), keeps a row iff that form
\* passes validation, removes every row whose Email is missing or invalid,
\* changes nothing else, and logs rows before minus rows after.
C9_FixEmails ==
    (lastOp = "fix_emails" /\ "Email" \in pre.df.cols) =>
        LET kept == {i \in Pos(pre.df) : Fixable(pre.df.rows[i].cells["Email"])}
        IN  /\ NRows(Clean) = Cardinality(kept)
            /\ Labels(Clean) = {pre.df.rows[i].idx : i \in kept}
            /\ OrderKept(Clean, pre.df)
            /\ \A k \in Pos(Clean) :
                  LET old == pre.df.rows[PosOf(pre.df, Clean.rows[k].idx)]
                  IN  Clean.rows[k].cells =
                         [old.cells EXCEPT
                            !["Email"] = Str(StandardEmail(old.cells["Email"]))]
            /\ Len(log) = Len(pre.log) + 1
            /\ SubSeq(log, 1, Len(pre.log)) = pre.log
            /\ log[Len(log)].n = NRows(pre.df) - NRows(Clean)

\* C9 witness: fix_emails rewrote an Email written with " at " and removed
\* a row
C9_Witness ==
    /\ lastOp = "fix_emails"
    /\ "Email" \in pre.df.cols
    /\ NRows(Clean) < NRows(pre.df)
    /\ \E k \in Pos(Clean) :
          LET old == pre.df.rows[PosOf(pre.df, Clean.rows[k].idx)].cells["Email"]
          IN  /\ \E p \in 1..Len(AsStr(old)) :
                    MatchAt(AsStr(old), p, <<" ", "a", "t", " ">>)
              /\ Clean.rows[k].cells["Email"] # old

\* C10: remove_duplicates removes a row only if an earlier row is equal to
\* it in every column or has the same Email ignoring case, so the first
\* row of every such group is kept; the surviving rows keep their relative
\* order and the logged number is the number of rows removed.
C10_RemovesOnlyDuplicates ==
    lastOp = "remove_duplicates" =>
        /\ \A i \in Pos(pre.df) :
              pre.df.rows[i].idx \notin Labels(Clean) =>
                 \E j \in 1..(i - 1) :
                    \/ SameRow(pre.df.rows[j], pre.df.rows[i])
                    \/ /\ "Email" \in pre.df.cols
                       /\ SameEmailIgnoringCase(pre.df.rows[j].cells["Email"],
                                                pre.df.rows[i].cells["Email"])
        /\ Labels(Clean) \subseteq Labels(pre.df)
        /\ OrderKept(Clean, pre.df)
        /\ log[Len(log)].n = NRows(pre.df) - NRows(Clean)

\* the cells of a column of the dataset before the call, and after it
PreCol(c) == Column(pre.df, c)
CleanCol(c) == Column(Clean, c)

\* the call kept every row, in place, and every column but c
OnlyColumnChanged(c) ==
    /\ NRows(Clean) = NRows(pre.df)
    /\ Clean.cols = pre.df.cols
    /\ \A i \in Pos(Clean) :
          /\ Clean.rows[i].idx = pre.df.rows[i].idx
          /\ \A o \in Clean.cols \ {c} :
                Clean.rows[i].cells[o] = pre.df.rows[i].cells[o]

\* the call appended exactly one log entry
OneEntryLogged ==
    Len(log) = Len(pre.log) + 1 /\ SubSeq(log, 1, Len(pre.log)) = pre.log

\* C11: after clean_dates on a dataset with a Join_Date column every
\* Join_Date cell is a date value or the missing marker, never a text.
C11_DatesOrMissing ==
    (lastOp = "clean_dates" /\ "Join_Date" \in pre.df.cols) =>
        \A i \in Pos(Clean) :
            Clean.rows[i].cells["Join_Date"].k \in {"date", "nan"}

\* C11 witness: clean_dates ran on a column that held the text "Unknown"
\* next to a text that is a date
C11_Witness ==
    /\ lastOp = "clean_dates"
    /\ "Join_Date" \in pre.df.cols
    /\ \E i, j \in Pos(pre.df) :
          /\ PreCol("Join_Date")[i] = Unknown
          /\ PreCol("Join_Date")[j].k = "str"
          /\ CleanCol("Join_Date")[j].k = "date"

\* C12: clean_dates leaves every Join_Date that parsed as the date it
\* parsed to and fills every Join_Date that is missing after parsing with
\* one date, a most frequent one among those that parsed, logging the
\* number filled; when no Join_Date parsed every cell is left missing, and
\* when nothing is filled the log entry says that nothing was imputed.
C12_ModeImputation ==
    (lastOp = "clean_dates" /\ "Join_Date" \in pre.df.cols) =>
        LET parsed == to_datetime(PreCol("Join_Date"))
            after == CleanCol("Join_Date")
            valid == {i \in Pos(pre.df) : ~IsNa(parsed[i])}
            missing == {i \in Pos(pre.df) : IsNa(parsed[i])}
            freq(c) == Cardinality({i \in valid : parsed[i] = c})
        IN  /\ OnlyColumnChanged("Join_Date")
            /\ OneEntryLogged
            /\ \A i \in valid : after[i] = parsed[i]
            /\ valid # {} =>
                  /\ \A i \in missing :
                        /\ \E j \in valid : after[i] = parsed[j]
                        /\ \A j \in valid : freq(parsed[j]) <= freq(after[i])
                  /\ \A i, j \in missing : after[i] = after[j]
            /\ valid = {} => \A i \in missing : IsNa(after[i])
            /\ IF valid # {} /\ missing # {}
               THEN log[Len(log)] =
                      [msg |-> "Standardized Dates. Imputed {n_fixed} missing/bad dates with mode.",
                       n |-> Cardinality(missing)]
               ELSE log[Len(log)] =
                      [msg |-> "Standardized Dates. No missing values found or mode undefined."]

\* C12 witness: clean_dates filled a missing Join_Date of a column in which
\* one date occurs more often than another, later or earlier, date
C12_Witness ==
    /\ lastOp = "clean_dates"
    /\ "Join_Date" \in pre.df.cols
    /\ \E i, j, k, m \in Pos(pre.df) :
          /\ i # j
          /\ PreCol("Join_Date")[i] = Iso0220
          /\ PreCol("Join_Date")[j] = Iso0220
          /\ PreCol("Join_Date")[k] = Iso0115
          /\ IsNa(PreCol("Join_Date")[m])
          /\ CleanCol("Join_Date")[m] = Date(20230220)

\* C12 witness: clean_dates ran on a column with rows in which no Join_Date
\* parses
C12_WitnessNoValid ==
    /\ lastOp = "clean_dates"
    /\ "Join_Date" \in pre.df.cols
    /\ NRows(pre.df) > 1
    /\ \E i \in Pos(pre.df) : PreCol("Join_Date")[i] = Unknown
    /\ \A i \in Pos(Clean) : IsNa(CleanCol("Join_Date")[i])

\* C13: after handle_missing_values on a dataset with an Event_Attendance
\* column no Event_Attendance cell is missing, every cell that was missing
\* is 0, every other cell and column is unchanged, and the logged count is
\* the number of cells that were missing.
C13_MissingFilledWithZero ==
    (lastOp = "handle_missing_values" /\ "Event_Attendance" \in pre.df.cols) =>
        LET before == PreCol("Event_Attendance")
            after == CleanCol("Event_Attendance")
        IN  /\ OnlyColumnChanged("Event_Attendance")
            /\ OneEntryLogged
            /\ \A i \in Pos(Clean) :
                  /\ ~IsNa(after[i])
                  /\ IsNa(before[i]) => after[i] = Num(0)
                  /\ ~IsNa(before[i]) => after[i] = before[i]
            /\ log[Len(log)] =
                  [msg |-> "Filled {n_att} missing Attendance records with 0.",
                   n |-> CountNa(before)]

\* C13 witness: handle_missing_values filled a missing cell next to a cell
\* that holds a number other than 0
C13_Witness ==
    /\ lastOp = "handle_missing_values"
    /\ "Event_Attendance" \in pre.df.cols
    /\ \E i, j \in Pos(pre.df) :
          /\ IsNa(PreCol("Event_Attendance")[i])
          /\ PreCol("Event_Attendance")[j] = Num(5)
          /\ CleanCol("Event_Attendance")[i] = Num(0)

\* C14: start_timestamp is set from construction on; end_timestamp, once
\* set, is not earlier than start_timestamp; no step call and no
\* construction sets end_timestamp, only a clean_all that completes sets
\* it, and then the five steps have run.
C14_Timestamps ==
    /\ [](/\ start_timestamp # None
          /\ end_timestamp # None => end_timestamp.t >= start_timestamp.t
          /\ lastOp = "__init__" => end_timestamp = None)
    /\ [][ /\ lastOp' \in StepNames => end_timestamp' = end_timestamp
           /\ (end_timestamp' # None /\ end_timestamp' # end_timestamp) =>
                 /\ lastOp' = "clean_all"
                 /\ heap'[clean_ref'] = CleanDf(clean_all(Cur))
                 /\ log' = clean_all(Cur).log ]_vars

\* C14 witness: clean_all set end_timestamp after a step call that had
\* left it unset
C14_Witness ==
    /\ lastOp = "clean_all"
    /\ Len(pre.log) > 0
    /\ end_timestamp # None
    /\ end_timestamp.t > start_timestamp.t

\* the engine's snapshot, and the value a call has returned
Snap == heap[health.df_ref]
Val == returned.v

\* the cells of a frame as <<position, column>> pairs
Cells(df) == Pos(df) \X df.cols
NonNull(df) == {ic \in Cells(df) : ~IsNa(df.rows[ic[1]].cells[ic[2]])}

\* the score x is n / d exactly
IsQuotient(x, n, d) == IsNumber(x) /\ x.num * d = n * x.den

\* C15: calculate_completeness_score returns 100 * non_null_cells /
\* total_cells on a dataset with at least one cell, so 100.0 when no cell is
\* missing, and 0.0 on a dataset with no rows or no columns; it never raises.
C15_Completeness ==
    lastOp = "calculate_completeness_score" =>
        LET total == Cardinality(Cells(Snap))
            non_null == Cardinality(NonNull(Snap))
        IN  /\ returned.k = "return"
            /\ total > 0 => IsQuotient(Val, 100 * non_null, total)
            /\ (total > 0 /\ non_null = total) => Val = Ratio(100, 1)
            /\ total = 0 => Val = Ratio(0, 1)

\* C15 witness: the completeness of a dataset with missing and present cells
C15_Witness ==
    /\ lastOp = "calculate_completeness_score"
    /\ NonNull(Snap) # {}
    /\ NonNull(Snap) # Cells(Snap)
    /\ Val \notin {Ratio(0, 1), Ratio(100, 1)}

\* C15 witness: the completeness of a dataset with columns and no rows
C15_WitnessEmpty ==
    /\ lastOp = "calculate_completeness_score"
    /\ Snap.cols # {}
    /\ NRows(Snap) = 0
    /\ Val = Ratio(0, 1)

\* the rows of a frame with rows equal in every column collapsed
DistinctRows(df) == {df.rows[i].cells : i \in Pos(df)}

\* C16: calculate_duplicate_score returns 100 * unique_rows / total_rows on
\* a dataset with rows, unique_rows counting the rows that differ in some
\* column, and 100.0 on a dataset without rows.
C16_DuplicateScore ==
    lastOp = "calculate_duplicate_score" =>
        /\ returned.k = "return"
        /\ NRows(Snap) > 0 =>
              IsQuotient(Val, 100 * Cardinality(DistinctRows(Snap)), NRows(Snap))
        /\ NRows(Snap) = 0 => Val = Ratio(100, 1)

\* C16 witness: the duplicate score of a dataset in which a row is repeated
C16_Witness ==
    /\ lastOp = "calculate_duplicate_score"
    /\ Cardinality(DistinctRows(Snap)) < NRows(Snap)
    /\ Val = Ratio(50, 1)

\* the columns the formatting score looks at
FormatCols == {"Email", "Join_Date", "Name"}

\* the number of valid cells of a format column of a frame
ValidCells(df, c) ==
    CASE c = "Email" ->
           Cardinality({i \in Pos(df) : is_valid_email(df.rows[i].cells[c])})
      [] c = "Name" ->
           Cardinality({i \in Pos(df) : is_valid_name(df.rows[i].cells[c])})
      [] c = "Join_Date" ->
           Cardinality({i \in Pos(df) : ~IsNa(to_datetime(Column(df, c))[i])})

\* the valid cells of the format columns that are present, summed
ValidPresent(df) ==
    (IF "Email" \in df.cols THEN ValidCells(df, "Email") ELSE 0)
    + (IF "Join_Date" \in df.cols THEN ValidCells(df, "Join_Date") ELSE 0)
    + (IF "Name" \in df.cols THEN ValidCells(df, "Name") ELSE 0)

\* the formatting score is a quotient of counts: the dataset has a row, or
\* none of the format columns
FormattingDefined(df) == NRows(df) > 0 \/ df.cols \cap FormatCols = {}

\* C17: on a dataset with rows calculate_formatting_score returns the mean,
\* over the columns among Email, Join_Date and Name that are present, of the
\* percentage of rows whose cell is valid; an absent column contributes
\* nothing, and with none of the three present the score is 100.0.
C17_FormattingScore ==
    (lastOp = "calculate_formatting_score" /\ FormattingDefined(Snap)) =>
        LET present == Snap.cols \cap FormatCols
        IN  /\ returned.k = "return"
            /\ present = {} => Val = Ratio(100, 1)
            /\ present # {} =>
                  IsQuotient(Val, 100 * ValidPresent(Snap),
                             NRows(Snap) * Cardinality(present))

\* C17 witness: the formatting score of a dataset that has two of the three
\* columns, with valid and invalid cells
C17_Witness ==
    /\ lastOp = "calculate_formatting_score"
    /\ Cardinality(Snap.cols \cap FormatCols) = 2
    /\ NRows(Snap) > 1
    /\ Val \notin {Ratio(0, 1), Ratio(100, 1)}

\* x is a number in [0, 100]
InRange(x) == IsNumber(x) /\ 0 <= x.num /\ x.num <= 100 * x.den

\* C18: on every dataset, one without rows that has an Email, Join_Date or
\* Name column included, the four score methods and get_detailed_metrics
\* raise nothing and every score they return is a number in [0, 100].
C18_ScoresAlwaysDefined ==
    lastOp \in ScoreMethods \cup {"get_detailed_metrics"} =>
        /\ ~raised
        /\ returned.k = "return"
        /\ lastOp \in ScoreMethods => InRange(Val)
        /\ lastOp = "get_detailed_metrics" =>
              /\ InRange(Val.completeness_score)
              /\ InRange(Val.duplicate_score)
              /\ InRange(Val.formatting_score)
              /\ InRange(Val.overall_score)

AbsDiff(a, b) == IF a >= b THEN a - b ELSE b - a

\* x is a whole number of tenths, at most 0.05 away from w
RoundedToTenth(x, w) ==
    /\ IsNumber(x)
    /\ (x.num * 10) % x.den = 0
    /\ 20 * AbsDiff(x.num * w.den, w.num * x.den) <= x.den * w.den

\* 0.4 * completeness + 0.3 * duplicate_score + 0.3 * formatting_score of
\* the snapshot, from the three methods' unrounded values
WeightedSum ==
    FAdd(FAdd(FScale(calculate_completeness_score(Snap), 4, 10),
              FScale(calculate_duplicate_score(Snap), 3, 10)),
         FScale(calculate_formatting_score(HealthCur, empty_sum).out.v, 3, 10))

\* C19: where the formatting score is defined,
\* calculate_overall_health_score is 0.4 * completeness + 0.3 *
\* duplicate_score + 0.3 * formatting_score of the unrounded component scores
\* of the snapshot, rounded to one decimal; three components of 100 give
\* 100.0.
C19_OverallScore ==
    (lastOp = "calculate_overall_health_score" /\ FormattingDefined(Snap)) =>
        /\ returned.k = "return"
        /\ RoundedToTenth(Val, WeightedSum)
        /\ WeightedSum = Ratio(100, 1) => Val = Ratio(100, 1)

\* C19 witness: an overall score whose weighted sum is no whole number of
\* tenths
C19_Witness ==
    /\ lastOp = "calculate_overall_health_score"
    /\ FormattingDefined(Snap)
    /\ (WeightedSum.num * 10) % WeightedSum.den # 0
    /\ Val # WeightedSum

\* C19 witness: the overall score of a dataset whose three component
\* scores are 100
C19_WitnessPerfect ==
    /\ lastOp = "calculate_overall_health_score"
    /\ NRows(Snap) > 0
    /\ calculate_completeness_score(Snap) = Ratio(100, 1)
    /\ calculate_duplicate_score(Snap) = Ratio(100, 1)
    /\ calculate_formatting_score(HealthCur, empty_sum).out.v = Ratio(100, 1)
    /\ Val = Ratio(100, 1)

\* the snapshot the engine holds if no call has changed it: the copy of
\* the input, or its first row once the caller has replaced the snapshot
Stored == IF health.df_ref = HeadSlot THEN DfHead(input, 1) ELSE input

\* how a method ends on an engine that holds df
ResultOn(method, df) ==
    LET st == [heap |-> [r \in Refs |-> df], df_ref |-> HealthSlot,
               timestamp |-> health.timestamp]
    IN  CASE method = "calculate_completeness_score" ->
               Return(calculate_completeness_score(df))
          [] method = "calculate_duplicate_score" ->
               Return(calculate_duplicate_score(df))
          [] method = "calculate_formatting_score" ->
               calculate_formatting_score(st, empty_sum).out
          [] method = "calculate_overall_health_score" ->
               calculate_overall_health_score(st, empty_sum).out
          [] method = "get_all_metrics" -> get_all_metrics(st, empty_sum).out
          [] method = "get_detailed_metrics" ->
               get_detailed_metrics(st, empty_sum).out

\* C20: whatever methods of the engine are called, and when the caller
\* replaces the engine's snapshot, the caller's dataset stays as it was
\* given; the method calls leave the stored snapshot as it was, so that
\* every call of a method ends as its first call on that snapshot would.
C20_MetricsPure ==
    /\ heap[CallerRef] = input
    /\ Snap = Stored
    /\ lastOp \in ScoreMethods \cup ReportMethods =>
          returned = ResultOn(lastOp, Stored)

\* C20 witness: a score method called after other calls, on a snapshot of
\* texts that are dates
C20_Witness ==
    /\ lastOp \in ScoreMethods
    /\ now = MaxMetricCalls
    /\ "Join_Date" \in Snap.cols
    /\ \E i \in Pos(Snap) : Snap.rows[i].cells["Join_Date"].k = "str"
    /\ ~raised

\* C20 witness: a method called after the caller replaced the snapshot of
\* an engine constructed on two rows
C20_WitnessReplaced ==
    /\ lastOp \in ScoreMethods \cup ReportMethods
    /\ health.df_ref = HeadSlot
    /\ NRows(Snap) = 1
    /\ NRows(heap[CallerRef]) = 2

\* C19 as stated, for every dataset: calculate_overall_health_score returns
\* 0.4 * completeness + 0.3 * duplicate_score + 0.3 * formatting_score of the
\* unrounded component scores of the snapshot, rounded to one decimal.
C19_OverallScoreEveryDataset ==
    lastOp = "calculate_overall_health_score" =>
        /\ returned.k = "return"
        /\ RoundedToTenth(Val, WeightedSum)

\* the counts and scores of a report agree with each other and with the
\* score methods on the snapshot
ConsistentReport(rep) ==
    /\ rep.total_records = NRows(Snap)
    /\ rep.total_cells = Cardinality(Cells(Snap))
    /\ rep.null_cells + rep.non_null_cells = rep.total_cells
    /\ rep.non_null_cells = Cardinality(NonNull(Snap))
    /\ rep.duplicate_records + rep.unique_records = rep.total_records
    /\ rep.unique_records = Cardinality(DistinctRows(Snap))
    /\ rep.completeness_score = round1(calculate_completeness_score(Snap))
    /\ rep.duplicate_score = round1(calculate_duplicate_score(Snap))
    /\ rep.formatting_score =
          round1(calculate_formatting_score(HealthCur, empty_sum).out.v)
    /\ rep.overall_score =
          calculate_overall_health_score(HealthCur, empty_sum).out.v
    /\ rep.timestamp = Time(0)
    /\ rep.timestamp = health.timestamp

\* C21: for every dataset get_detailed_metrics returns a report in which
\* null_cells + non_null_cells = total_cells, duplicate_records +
\* unique_records = total_records, unique_records counts the rows with fully
\* identical rows collapsed, the three component scores are the methods'
\* values rounded to one decimal, overall_score is
\* calculate_overall_health_score, and timestamp is the time of construction.
C21_DetailedReport ==
    lastOp = "get_detailed_metrics" =>
        /\ returned.k = "return"
        /\ ConsistentReport(Val)

\* C21 where the formatting score is defined: the report is consistent
C21_ReportWhereDefined ==
    (lastOp = "get_detailed_metrics" /\ FormattingDefined(Snap)) =>
        /\ returned.k = "return"
        /\ ConsistentReport(Val)

\* C21: a report on a dataset with a repeated row and a missing cell
C21_ReportReached ==
    /\ lastOp = "get_detailed_metrics"
    /\ returned.k = "return"
    /\ Val.duplicate_records > 0
    /\ Val.null_cells > 0
    /\ Val.non_null_cells > 0

\* the four columns the steps work on
RecognizedCols == {"Name", "Email", "Join_Date", "Event_Attendance"}

\* the log entries of before are the first entries of after, in place
LogExtends(before, after) ==
    /\ Len(after) >= Len(before)
    /\ SubSeq(after, 1, Len(before)) = before

\* the texts of the log entries, in order
LogTexts == [i \in 1..Len(log) |-> log[i].msg]

\* C22: the log is append-only. A step call leaves the entries the log had
\* unchanged and in place and appends at most one entry, made when the
\* step's work is done (the count fix_emails and remove_duplicates log is
\* the number of rows the call removed); clean_all leaves the entries the
\* log had in place too; and after clean_all on a fresh cleaner whose dataset
\* has Name, Email, Join_Date and Event_Attendance the log holds exactly the
\* five entries names, emails, duplicates, dates, attendance, in that order.
C22_LogAppendOnly ==
    /\ [][ /\ lastOp' \in StepNames =>
                /\ LogExtends(log, log')
                /\ Len(log') <= Len(log) + 1
                /\ (lastOp' \in {"fix_emails", "remove_duplicates"}
                      /\ Len(log') = Len(log) + 1) =>
                      log'[Len(log')].n =
                         NRows(heap[clean_ref]) - NRows(heap'[clean_ref'])
           /\ lastOp' = "clean_all" => LogExtends(log, log') ]_vars
    /\ [](( /\ lastOp = "clean_all"
            /\ pre.log = <<>>
            /\ RecognizedCols \subseteq pre.df.cols) =>
          /\ Len(log) = 5
          /\ LogTexts[1] = "Standardized Names to Title Case."
          /\ LogTexts[2] =
                "Fixed email formatting. Removed {n_dropped} invalid emails."
          /\ LogTexts[3] =
                "Removed {initial_count - final_count} duplicate rows."
          /\ LogTexts[4] \in
                {"Standardized Dates. Imputed {n_fixed} missing/bad dates with mode.",
                 "Standardized Dates. No missing values found or mode undefined."}
          /\ LogTexts[5] = "Filled {n_att} missing Attendance records with 0.")

\* C22 witness: a step call that appended its entry to a log that held
\* the entry of a different step
C22_Witness ==
    /\ lastOp \in StepNames
    /\ Len(pre.log) = 1
    /\ Len(log) = 2
    /\ log[1] = pre.log[1]
    /\ log[2].msg # log[1].msg

\* C22 witness: clean_all on a fresh cleaner whose dataset has the four
\* columns and rows
C22_WitnessCleanAll ==
    /\ lastOp = "clean_all"
    /\ pre.log = <<>>
    /\ RecognizedCols \subseteq pre.df.cols
    /\ NRows(pre.df) > 1
    /\ Len(log) = 5

\* the row of df with index label l
RowOf(df, l) == df.rows[PosOf(df, l)]

\* every row of the clean dataset is a row the dataset had before the call,
\* with the cells it had in every column outside cols
CellsKeptOutside(cols) ==
    /\ Labels(Clean) \subseteq Labels(pre.df)
    /\ NRows(Clean) <= NRows(pre.df)
    /\ \A l \in Labels(Clean) : \A c \in Clean.cols \ cols :
          RowOf(Clean, l).cells[c] = RowOf(pre.df, l).cells[c]

\* C23: in every reachable state the clean dataset has exactly the columns of
\* the input; standardize_names changes cells of Name only, fix_emails of
\* Email only, clean_dates of Join_Date only, handle_missing_values of
\* Event_Attendance only; remove_duplicates changes no cell; and no step, nor
\* clean_all, adds a row.
C23_FrameEffect ==
    /\ Clean.cols = input.cols
    /\ lastOp \in StepNames \ {"remove_duplicates"} =>
          CellsKeptOutside({Target(lastOp)})
    /\ lastOp = "remove_duplicates" => CellsKeptOutside({})
    /\ lastOp = "clean_all" => CellsKeptOutside(RecognizedCols)

\* C23 witness: handle_missing_values filled a cell of a row that has a
\* missing cell in another column, which stayed missing
C23_Witness ==
    /\ lastOp = "handle_missing_values"
    /\ \E i \in Pos(pre.df) : \E c \in pre.df.cols \ {"Event_Attendance"} :
          /\ "Event_Attendance" \in pre.df.cols
          /\ IsNa(pre.df.rows[i].cells["Event_Attendance"])
          /\ IsNa(pre.df.rows[i].cells[c])
          /\ Clean.rows[i].cells["Event_Attendance"] = Num(0)
          /\ IsNa(Clean.rows[i].cells[c])

\* C23 witness: fix_emails dropped a row and rewrote the Email of a row it
\* kept, in a dataset with other columns
C23_WitnessRowsDropped ==
    /\ lastOp = "fix_emails"
    /\ NRows(Clean) < NRows(pre.df)
    /\ Cardinality(Clean.cols) > 1
    /\ \E l \in Labels(Clean) :
          RowOf(Clean, l).cells["Email"] # RowOf(pre.df, l).cells["Email"]

\* the entry reports the count n
ReportsCount(entry, n) == "n" \in DOMAIN entry /\ entry.n = n

\* the entries a call appended to the log
Appended == SubSeq(log, Len(pre.log) + 1, Len(log))

\* the steps of clean_all's order whose target column the dataset has
\* (remove_duplicates logs with or without its column)
LoggingSteps(df) ==
    SelectSeq(<<"standardize_names", "fix_emails", "remove_duplicates",
                "clean_dates", "handle_missing_values">>,
              LAMBDA s : s = "remove_duplicates" \/ Target(s) \in df.cols)

\* the entry a step appends on a dataset without rows
ZeroRowEntry(step) ==
    CASE step = "standardize_names" ->
           [msg |-> "Standardized Names to Title Case."]
      [] step = "fix_emails" ->
           [msg |-> "Fixed email formatting. Removed {n_dropped} invalid emails.",
            n |-> 0]
      [] step = "remove_duplicates" ->
           [msg |-> "Removed {initial_count - final_count} duplicate rows.",
            n |-> 0]
      [] step = "clean_dates" ->
           [msg |-> "Standardized Dates. No missing values found or mode undefined."]
      [] step = "handle_missing_values" ->
           [msg |-> "Filled {n_att} missing Attendance records with 0.",
            n |-> 0]

\* C24 as stated: on a dataset with zero rows each step and clean_all
\* completes without raising and leaves zero rows, and every step whose
\* target column is present appends a log entry that reports a count of
\* zero.
C24_ZeroRowsCountZero ==
    (lastOp \in StepNames \cup {"clean_all"} /\ NRows(pre.df) = 0) =>
        /\ ~raised
        /\ NRows(Clean) = 0
        /\ LogExtends(pre.log, log)
        /\ (lastOp \in StepNames /\ Target(lastOp) \in pre.df.cols) =>
              /\ Len(Appended) = 1
              /\ ReportsCount(Appended[1], 0)
        /\ lastOp = "clean_all" =>
              /\ Len(Appended) = Len(LoggingSteps(pre.df))
              /\ \A i \in 1..Len(Appended) : ReportsCount(Appended[i], 0)

\* C24 amended: on a dataset with zero rows each step and clean_all
\* completes without raising and leaves zero rows, and every step whose
\* target column is present appends one log entry: fix_emails,
\* remove_duplicates and handle_missing_values report a count of zero,
\* standardize_names appends its confirmation and clean_dates the entry that
\* nothing was imputed, and these two entries carry no count.
C24_ZeroRows ==
    (lastOp \in StepNames \cup {"clean_all"} /\ NRows(pre.df) = 0) =>
        /\ ~raised
        /\ NRows(Clean) = 0
        /\ Clean.cols = pre.df.cols
        /\ LogExtends(pre.log, log)
        /\ (lastOp \in StepNames /\ Target(lastOp) \in pre.df.cols) =>
              Appended = <<ZeroRowEntry(lastOp)>>
        /\ lastOp = "clean_all" =>
              Appended = [i \in 1..Len(LoggingSteps(pre.df)) |->
                            ZeroRowEntry(LoggingSteps(pre.df)[i])]

\* C24 witness: clean_dates called on a dataset that has a Join_Date column
\* and no rows
C24_Witness ==
    /\ lastOp = "clean_dates"
    /\ NRows(pre.df) = 0
    /\ "Join_Date" \in pre.df.cols
    /\ Len(log) = Len(pre.log) + 1

\* C24 witness: clean_all on a dataset with the four columns and no rows
C24_WitnessCleanAll ==
    /\ lastOp = "clean_all"
    /\ NRows(pre.df) = 0
    /\ RecognizedCols \subseteq pre.df.cols
    /\ Len(Appended) = 5

\* the Join_Date column of the dataset before the call, parsed
ParsedDates == to_datetime(PreCol("Join_Date"))

\* the positions whose Join_Date is one of the most frequent valid dates
TiedPositions ==
    LET valid == {i \in Pos(pre.df) : ~IsNa(ParsedDates[i])}
        freq(i) == Cardinality({j \in valid : ParsedDates[j] = ParsedDates[i]})
    IN  {i \in valid : \A j \in valid : freq(j) <= freq(i)}

\* several valid dates tie for most frequent and a date is missing
TieToBreak ==
    /\ lastOp = "clean_dates"
    /\ "Join_Date" \in pre.df.cols
    /\ \E i, j \in TiedPositions : ParsedDates[i] # ParsedDates[j]
    /\ \E i \in Pos(pre.df) : IsNa(ParsedDates[i])

\* C25 as stated: when several valid dates tie for most frequent in
\* Join_Date, clean_dates fills the missing dates with the tied date that
\* comes first in row order.
C25_TieFirstEncountered ==
    TieToBreak =>
        \A i \in Pos(pre.df) :
            IsNa(ParsedDates[i]) =>
                CleanCol("Join_Date")[i] = ParsedDates[Least(TiedPositions)]

\* C25 amended: when several valid dates tie for most frequent in Join_Date,
\* clean_dates fills the missing dates with the earliest of the tied dates,
\* wherever in the column it stands.
C25_TieEarliest ==
    TieToBreak =>
        \A i \in Pos(pre.df) :
            IsNa(ParsedDates[i]) =>
                /\ \E j \in TiedPositions :
                      CleanCol("Join_Date")[i] = ParsedDates[j]
                /\ \A j \in TiedPositions :
                      CleanCol("Join_Date")[i].d <= ParsedDates[j].d

\* C25 witness: two dates tie, the later one comes first in the column, and
\* the missing date is filled with the earlier one
C25_Witness ==
    /\ TieToBreak
    /\ ParsedDates[Least(TiedPositions)] = Date(20230220)
    /\ \E i \in Pos(pre.df) :
          /\ IsNa(ParsedDates[i])
          /\ CleanCol("Join_Date")[i] = Date(20230115)

\* the rows of the dataset before the call that fix_emails keeps
EmailSurvivors ==
    {i \in Pos(pre.df) :
        "Email" \in pre.df.cols => Fixable(pre.df.rows[i].cells["Email"])}

\* C26: if a step raises while clean_all runs, the exception reaches the
\* caller of clean_all, no later step is executed, the log has gained only
\* the entries of the steps that completed before the failure and none for
\* the step that failed, and end_timestamp stays unset. fix_emails raises on
\* an Email that is a list, remove_duplicates on a list in any column of a
\* row that is left.
C26_FailurePropagates ==
    lastOp = "clean_all" =>
        LET emailFails == HasList(pre.df, "Email")
            dedupeFails ==
                \E i \in EmailSurvivors : \E c \in pre.df.cols :
                    pre.df.rows[i].cells[c] = ListCell
            completed ==
                SelectSeq(IF emailFails THEN <<"standardize_names">>
                          ELSE <<"standardize_names", "fix_emails">>,
                          LAMBDA s : Target(s) \in pre.df.cols)
        IN  /\ raised <=> (emailFails \/ dedupeFails)
            /\ raised =>
                  /\ returned =
                        Raise(IF emailFails THEN "ValueError" ELSE "TypeError")
                  /\ end_timestamp = None
                  /\ LogExtends(pre.log, log)
                  /\ Len(Appended) = Len(completed)
                  /\ \A i \in 1..Len(completed) :
                        Appended[i].msg = ZeroRowEntry(completed[i]).msg
                  /\ CellsKeptOutside({"Name", "Email"})
                  /\ Labels(Clean) =
                        IF emailFails THEN Labels(pre.df)
                        ELSE {pre.df.rows[i].idx : i \in EmailSurvivors}
            /\ ~raised =>
                  /\ returned = "self.clean_df"
                  /\ end_timestamp = Time(now)

\* C26 witness: remove_duplicates raised inside clean_all after
\* standardize_names and fix_emails had completed, fix_emails having dropped
\* a row
C26_Witness ==
    /\ lastOp = "clean_all"
    /\ raised
    /\ returned = Raise("TypeError")
    /\ Len(Appended) = 2
    /\ NRows(Clean) < NRows(pre.df)
    /\ {"Join_Date", "Event_Attendance"} \subseteq pre.df.cols

\* C26 witness: fix_emails raised inside clean_all after standardize_names
\* had completed
C26_WitnessFixEmails ==
    /\ lastOp = "clean_all"
    /\ raised
    /\ returned = Raise("ValueError")
    /\ "Name" \in pre.df.cols
    /\ Len(Appended) = 1
    /\ \E i \in Pos(Clean) :
          Clean.rows[i].cells["Name"] # pre.df.rows[i].cells["Name"]

\* C26 witness: clean_all completed on a dataset with a list in a row that
\* fix_emails dropped
C26_WitnessCompleted ==
    /\ lastOp = "clean_all"
    /\ ~raised
    /\ HasList(pre.df, "Role")
    /\ end_timestamp # None

\* C27: standardize_names preserves missingness: a Name that is missing
\* before the step is missing after it, so the step changes neither the
\* number of missing cells that the completeness score counts nor the number
\* of names is_valid_name accepts among the names that were missing.
C27_MissingNamePreserved ==
    (lastOp = "standardize_names" /\ "Name" \in pre.df.cols) =>
        LET missing == {i \in Pos(pre.df) : IsNa(PreCol("Name")[i])}
        IN  /\ \A i \in missing : IsNa(CleanCol("Name")[i])
            /\ Cardinality(NonNull(Clean)) = Cardinality(NonNull(pre.df))
            /\ calculate_completeness_score(Clean) =
                  calculate_completeness_score(pre.df)
            /\ \A i \in missing : ~is_valid_name(CleanCol("Name")[i])

\* C27: the state standardize_names leaves on a dataset with a missing Name:
\* the Name is the text "Nan", which is_valid_name accepts
C27_MissingBecomesText ==
    /\ lastOp = "standardize_names"
    /\ "Name" \in pre.df.cols
    /\ \E i \in Pos(pre.df) :
          /\ IsNa(PreCol("Name")[i])
          /\ CleanCol("Name")[i] = Str(<<"N", "a", "n">>)
          /\ is_valid_name(CleanCol("Name")[i])

\* C28: remove_duplicates never treats a missing Email as a match: a row
\* whose Email is missing is removed only if an earlier row is equal to it
\* in every column, and a row whose Email is a text is removed only if an
\* earlier row is equal to it in every column or has a text Email that is
\* the same ignoring case, so a missing Email and the text "nan" never
\* collide.
C28_MissingEmailNoMatch ==
    (lastOp = "remove_duplicates" /\ "Email" \in pre.df.cols) =>
        \A i \in Pos(pre.df) :
            pre.df.rows[i].idx \notin Labels(Clean) =>
               \E j \in 1..(i - 1) :
                  \/ SameRow(pre.df.rows[j], pre.df.rows[i])
                  \/ /\ ~IsNa(PreCol("Email")[i])
                     /\ ~IsNa(PreCol("Email")[j])
                     /\ SameEmailIgnoringCase(PreCol("Email")[j],
                                              PreCol("Email")[i])

\* C28: the state remove_duplicates leaves when it removed a row whose
\* Email is missing because an earlier, different row has the text "NaN"
C28_MissingCollides ==
    /\ lastOp = "remove_duplicates"
    /\ "Email" \in pre.df.cols
    /\ NRows(pre.df) = 2
    /\ NRows(Clean) = 1
    /\ PreCol("Email")[1] = Str(<<"N", "a", "N">>)
    /\ IsNa(PreCol("Email")[2])

\* how calculate_overall_health_score ends on an engine constructed on df:
\* DataHealthMetrics(df).calculate_overall_health_score()
OverallOf(df) ==
    calculate_overall_health_score(
        [heap |-> [r \in Refs |-> df], df_ref |-> HealthSlot,
         timestamp |-> Time(now)], empty_sum).out

\* the score x is at most the score y
AtMost(x, y) == x.num * y.den <= y.num * x.den

\* C29: cleaning never lowers the health score: for the input dataset of a
\* clean_all that completes, calculate_overall_health_score of the output is
\* a number and is at least calculate_overall_health_score of the input.
C29_CleaningNeverLowers ==
    (lastOp = "clean_all" /\ ~raised /\ pre.df = input) =>
        Bind(OverallOf(Clean), LAMBDA after :
            /\ after.k = "return"
            /\ IsNumber(after.v)
            /\ Bind(OverallOf(input), LAMBDA before :
                  (before.k = "return" /\ IsNumber(before.v)) =>
                      AtMost(before.v, after.v)))

\* C29: the state clean_all leaves with rows, and a health score that is a
\* number below the health score of the input
C29_ScoreLowered ==
    /\ lastOp = "clean_all"
    /\ ~raised
    /\ pre.df = input
    /\ NRows(Clean) > 0
    /\ Bind(OverallOf(Clean), LAMBDA after :
          /\ after.k = "return"
          /\ IsNumber(after.v)
          /\ Bind(OverallOf(input), LAMBDA before :
                /\ before.k = "return"
                /\ IsNumber(before.v)
                /\ ~AtMost(before.v, after.v)))

\* the tutorial panel of the step the session is at
CurrentPanel == [k |-> "step", step |-> session_state.tutorial_step]

\* C30: while tutorial_mode is on, every run of the dashboard on loaded data
\* leaves tutorial_step within 0 .. 5 and, below 5, draws the tutorial panel
\* of the current step with its Next button, so that a user who presses Next
\* each time reaches the completion branch.
C30_TutorialProgress ==
    (session_state.tutorial_mode /\ data_exists) =>
        /\ session_state.tutorial_step \in 0..TutorialLen
        /\ session_state.tutorial_step < TutorialLen =>
              /\ panel = CurrentPanel
              /\ "Next" \in rendered

\* C30: the state after "Start Tutorial" on loaded data: tutorial_mode on,
\* tutorial_step 0, no tutorial panel and no Next button drawn
C30_StuckAtStepZero ==
    /\ session_state.tutorial_mode
    /\ session_state.tutorial_step = 0
    /\ data_exists
    /\ panel = NoPanel
    /\ "Next" \notin rendered
    /\ "Skip Tutorial" \notin rendered

\* C30: in every state of the dashboard tutorial_step is 0 and neither a
\* tutorial panel nor Next is drawn, and the completion branch has not run:
\* tutorial_mode, once on, stays on
C30_TutorialNeverAdvances ==
    /\ [](/\ session_state.tutorial_step = 0
          /\ panel = NoPanel
          /\ rendered \cap {"Next", "Previous", "Skip Tutorial"} = {})
    /\ [][session_state.tutorial_mode => session_state.tutorial_mode']_vars

====
